---- MODULE Spec2Model ----
(***************************************************************************)
(* A model of the notification-to-enrichment pipeline of Outlook_Automater *)
(*                                                                         *)
(*   app/api/webhooks.py            receive_webhook_notification           *)
(*   app/tasks/email_tasks.py       process_email_notification             *)
(*   app/services/ai_service.py     AIService.process_email                *)
(*   app/services/cache_service.py  CacheService                           *)
(*   app/services/webhook_service.py, app/tasks/subscription_renewal.py    *)
(*   app/services/graph_client.py, email_client.py                         *)
(*                                                                         *)
(* The specifications share the variables:                                 *)
(*   SpecWebhook  one POST /notifications on every shape of body           *)
(*   Spec         the receiver feeding a pool of workers                   *)
(*   SpecHtml     the same on messages with an HTML body                   *)
(*   SpecRetry    the same on a message whose processing raises            *)
(*   SpecAI       one AIService.process_email call, provider by provider   *)
(*   SpecSub      subscription create / renew / delete and the sweep       *)
(*   SpecHourly   the sweep run at every beat, hour after hour             *)
(*   SpecLapse    the sweep after the subscriptions have expired           *)
(*   SpecAbort    Spec with worker processes that end in mid-task          *)
(*   SpecCache    CacheService.set / get while the TTLs run                *)
(*   SpecGateway  the operations of the Graph clients                      *)
(*   SpecNoSub    Spec on notifications that name no subscription          *)
(*   SpecBatch    process_email_batch feeding the same workers             *)
(***************************************************************************)
EXTENDS Integers, Sequences, FiniteSets, TLC

VARIABLES
    queue,       \* the broker: tasks sent by .delay()/.retry() and not yet taken
    nextTaskId,  \* number of .delay() calls the broker has accepted so far
    http,        \* the last request to POST /notifications and its response
    users,       \* table users: id -> webhook_subscription_id, webhook_expires_at
    emails,      \* table emails: the committed rows
    nextRowId,   \* emails.id, the autoincrement primary key
    cache,       \* Redis: key -> JSON value, absent keys read as None
    vstore,      \* ChromaDB collection "emails": the ids added
    wk,          \* worker -> the frame of _process_email_async it is running
    finished,    \* history: the tasks that left the queue for good, in order
    ai,          \* the frame of one AIService.process_email call
    now,         \* datetime.utcnow(), in minutes (SpecCache: in units of ttl)
    upstream,    \* the subscriptions held by the mail service
    sweep,       \* the frame of _renew_expiring_subscriptions_async
    subLog,      \* history: the renewals the sweep has written, in order
    dbFailures,  \* number of commits the database has failed so far
    gw           \* the frame of the last GraphClient / OutlookClient /
                 \* CacheService call

whVars  == <<queue, nextTaskId, http>>
dbVars  == <<users, emails, nextRowId>>
wkVars  == <<cache, vstore, wk, finished, dbFailures>>
subVars == <<now, upstream, sweep, subLog, gw>>
vars    == <<queue, nextTaskId, http, users, emails, nextRowId, cache, vstore,
             wk, finished, ai, now, upstream, sweep, subLog, dbFailures, gw>>

(***************************************************************************)
(* Python values.  None is a value of its own; a str is a sequence of      *)
(* characters, so that split, slicing and concatenation are computed.      *)
(***************************************************************************)
None == "<None>"

Slash == "/"

UserIds == {1, 2}
Workers == {"w1", "w2"}

IdleFrame == [pc |-> "idle"]

\* str.split(sep): the segments between the separators, "" included.
RECURSIVE Split(_, _)
Split(s, sep) ==
    IF \A i \in 1..Len(s) : s[i] # sep
    THEN <<s>>
    ELSE LET i == CHOOSE k \in 1..Len(s) :
                      s[k] = sep /\ \A j \in 1..(k - 1) : s[j] # sep
         IN  <<SubSeq(s, 1, i - 1)>> \o Split(SubSeq(s, i + 1, Len(s)), sep)

\* sep in s
Contains(s, sep) == \E i \in 1..Len(s) : s[i] = sep

(***************************************************************************)
(* POST /notifications: receive_webhook_notification                       *)
(*                                                                         *)
(* A request body is                                                       *)
(*   [kind |-> "malformed"]   request.json() raises                        *)
(*   [kind |-> "nonobject"]   JSON, but a list, a string, a number or null *)
(*   [kind |-> "object", token |-> v, value |-> v]                         *)
(* and a JSON value v is a record [t, s, l]: t its type ("absent" when the *)
(* key is missing), s the characters of a string, l the items of a list.   *)
(* A notification is [t, res, sub, ct]: t = "dict" for a JSON object, res  *)
(* the value under "resource", sub and ct what .get("subscriptionId") and  *)
(* .get("changeType") return.                                              *)
(***************************************************************************)
Absent == [t |-> "absent", s |-> <<>>, l |-> <<>>]
JNull  == [t |-> "null",   s |-> <<>>, l |-> <<>>]
JNum   == [t |-> "num",    s |-> <<>>, l |-> <<>>]
JStr(s) == [t |-> "str",   s |-> s,    l |-> <<>>]
JList(l) == [t |-> "list", s |-> <<>>, l |-> l]

\* Python truthiness of a JSON value (JNum stands for a number other than 0)
Truthy(v) ==
    CASE v.t = "absent" -> FALSE
      [] v.t = "null"   -> FALSE
      [] v.t = "num"    -> TRUE
      [] v.t = "str"    -> v.s # <<>>
      [] v.t = "list"   -> v.l # <<>>

\* a parse that takes the first segment, not the last
ParseMessageIdFirst(resource) ==
    IF Contains(resource, Slash) THEN JStr(Split(resource, Slash)[1]) ELSE JNull

\* message_id = resource.split("/")[-1] if "/" in resource else None
ParseMessageId(resource) ==
    IF Contains(resource, Slash)
    THEN JStr(Split(resource, Slash)[Len(Split(resource, Slash))])
    ELSE JNull

\* One pass of the loop body up to the .delay() call: the arguments of the
\* call in a one-element sequence, or the empty sequence when the entry is
\* skipped.  notification.get on a value that is no dict, and "/" in a
\* resource that is no str, raise inside the try and are swallowed by the
\* except.
DelayArgs(notification) ==
    IF notification.t # "dict" THEN <<>>
    ELSE LET resource == IF notification.res.t = "absent" THEN JStr(<<>>)
                         ELSE notification.res
         IN  IF resource.t # "str" THEN <<>>
             ELSE LET message_id == ParseMessageId(resource.s)
                  IN  IF ~Truthy(message_id) THEN <<>>
                      ELSE <<[subscription_id |-> notification.sub,
                              message_id      |-> message_id.s,
                              change_type     |-> notification.ct]>>

\* The .delay() calls of the whole loop, in order.
RECURSIVE DelayCalls(_)
DelayCalls(notifications) ==
    IF notifications = <<>> THEN <<>>
    ELSE DelayArgs(Head(notifications)) \o DelayCalls(Tail(notifications))

\* The calls the broker took: a call whose index is in fails raised.
RECURSIVE Accepted(_, _, _)
Accepted(calls, fails, i) ==
    IF i > Len(calls) THEN <<>>
    ELSE (IF i \in fails THEN <<>> ELSE <<calls[i]>>) \o Accepted(calls, fails, i + 1)

\* The task messages of the accepted calls, numbered from id + 1.
NewTasks(accepted, id) ==
    { [id |-> id + i, subscription_id |-> accepted[i].subscription_id,
       message_id |-> accepted[i].message_id,
       change_type |-> accepted[i].change_type, retries |-> 0, countdown |-> 0]
      : i \in 1..Len(accepted) }

Reply(body, status, content, calls, accepted) ==
    [body |-> body, status |-> status, content |-> content,
     calls |-> calls, accepted |-> accepted]

\* The response when the body carries "validationToken": Response(content=
\* token) encodes a str, renders None as the empty body, and raises on any
\* other value, which the framework answers with 500.
ValidationReply(body) ==
    CASE body.token.t = "str"  -> Reply(body, 200, body.token.s, <<>>, <<>>)
      [] body.token.t = "null" -> Reply(body, 200, <<>>, <<>>, <<>>)
      [] OTHER                 -> Reply(body, 500, <<>>, <<>>, <<>>)

\* a handshake test that gives way to a batch in the same body
IsValidationRequestUnlessValue(body) ==
    body.token.t # "absent" /\ ~Truthy(body.value)

\* if "validationToken" in body
IsValidationRequest(body) == body.token.t # "absent"

\* The notifications the loop runs over, when the handler reaches the loop.
LoopOver(body) ==
    IF body.kind = "object" /\ ~IsValidationRequest(body) /\ body.value.t = "list"
    THEN body.value.l ELSE <<>>

\* a receiver whose loop has one try around it: the first .delay() that
\* raises ends the loop, and the request is answered 500
ReceiveWebhookFailClosed(body, fails) ==
    /\ fails \subseteq 1..Len(DelayCalls(LoopOver(body)))
    /\ UNCHANGED <<dbVars, wkVars, ai, subVars>>
    /\ LET all   == DelayCalls(LoopOver(body))
           last  == IF fails = {} THEN Len(all)
                    ELSE CHOOSE i \in fails : \A j \in fails : i <= j
           calls == SubSeq(all, 1, last)
           accepted == Accepted(calls, fails, 1)
       IN  /\ http' = Reply(body, IF fails = {} THEN 202 ELSE 500, <<>>,
                            calls, accepted)
           /\ queue' = queue \cup NewTasks(accepted, nextTaskId)
           /\ nextTaskId' = nextTaskId + Len(accepted)

\* lines 27-93: receive_webhook_notification on one request body, the
\* .delay() calls whose index is in fails raising
ReceiveWebhook(body, fails) ==
    /\ fails \subseteq 1..Len(DelayCalls(LoopOver(body)))
    /\ UNCHANGED <<dbVars, wkVars, ai, subVars>>
    /\ CASE body.kind = "malformed" ->
              /\ http' = Reply(body, 400, <<>>, <<>>, <<>>)
              /\ UNCHANGED <<queue, nextTaskId>>
         [] body.kind = "nonobject" ->
              \* body.get raises AttributeError outside any try
              /\ http' = Reply(body, 500, <<>>, <<>>, <<>>)
              /\ UNCHANGED <<queue, nextTaskId>>
         [] body.kind = "object" /\ IsValidationRequest(body) ->
              /\ http' = ValidationReply(body)
              /\ UNCHANGED <<queue, nextTaskId>>
         [] body.kind = "object" /\ ~IsValidationRequest(body)
                                 /\ ~Truthy(body.value) ->
              /\ http' = Reply(body, 202, <<>>, <<>>, <<>>)
              /\ UNCHANGED <<queue, nextTaskId>>
         [] body.kind = "object" /\ ~IsValidationRequest(body)
                                 /\ body.value.t = "num" ->
              \* for ... in a number raises TypeError outside the try
              /\ http' = Reply(body, 500, <<>>, <<>>, <<>>)
              /\ UNCHANGED <<queue, nextTaskId>>
         [] body.kind = "object" /\ ~IsValidationRequest(body)
                                 /\ body.value.t = "str" /\ Truthy(body.value) ->
              \* every character is an entry that is no dict
              /\ http' = Reply(body, 202, <<>>, <<>>, <<>>)
              /\ UNCHANGED <<queue, nextTaskId>>
         [] body.kind = "object" /\ ~IsValidationRequest(body)
                                 /\ body.value.t = "list" /\ Truthy(body.value) ->
              LET calls    == DelayCalls(LoopOver(body))
                  accepted == Accepted(calls, fails, 1)
              IN  /\ http' = Reply(body, 202, <<>>, calls, accepted)
                  /\ queue' = queue \cup NewTasks(accepted, nextTaskId)
                  /\ nextTaskId' = nextTaskId + Len(accepted)

(***************************************************************************)
(* The request bodies of SpecWebhook                                       *)
(***************************************************************************)
MaxResLen == 3
MaxBatch  == 2

Chars == {Slash, "m1"}

SeqsUpTo(S, n) == UNION { [1..k -> S] : k \in 0..n }

Resources == { JStr(s) : s \in SeqsUpTo(Chars, MaxResLen) } \cup {Absent, JNull, JNum}

Notifications ==
    { [t |-> "dict", res |-> r, sub |-> "s1", ct |-> "created"] : r \in Resources }
    \cup { [t |-> "dict", res |-> JStr(<<"me", Slash, "m1">>), sub |-> None, ct |-> None],
           [t |-> "other", res |-> Absent, sub |-> None, ct |-> None] }

Tokens == { JStr(<<"a", "b", "c", "1", "2", "3">>), JStr(<<>>), JNull, JNum }

OneTask == JList(<<[t |-> "dict", res |-> JStr(<<"me", Slash, "m1">>),
                    sub |-> "s1", ct |-> "created"]>>)

Bodies ==
    { [kind |-> "malformed", token |-> Absent, value |-> Absent],
      [kind |-> "nonobject", token |-> Absent, value |-> Absent] }
    \cup { [kind |-> "object", token |-> tk, value |-> v]
           : tk \in Tokens, v \in {Absent, OneTask} }
    \cup { [kind |-> "object", token |-> Absent, value |-> v]
           : v \in {Absent, JNull, JNum, JStr(<<"x">>)} }
    \cup { [kind |-> "object", token |-> Absent, value |-> JList(l)]
           : l \in SeqsUpTo(Notifications, MaxBatch) }

NoRequest == Reply([kind |-> "none", token |-> Absent, value |-> Absent],
                   0, <<>>, <<>>, <<>>)

(***************************************************************************)
(* AIService (app/services/ai_service.py)                                  *)
(*                                                                         *)
(* A str the engine handles is a record [form, by, about, chars]: chars    *)
(* are its characters (a literal of the source is one element), by the     *)
(* tier that wrote it, about the prompt input it answers, and form what a  *)
(* provider's reply looks like:                                            *)
(*   "none"        the call returned None (exception, timeout, quota,      *)
(*                 missing API key)                                        *)
(*   "empty"       the empty string                                        *)
(*   "prose"       text that is no JSON ("not json")                       *)
(*   "json_list"   a JSON array of one well-formed action object           *)
(*   "json_empty"  the JSON array []                                       *)
(***************************************************************************)
PreviewLen    == 200
PromptBodyLen == 2000

\* a summary chain in the order of the action chain
SummaryProvidersActionOrder == <<"openai", "claude", "gemini">>

SummaryProviders == <<"gemini", "openai", "claude">>
ActionProviders  == <<"openai", "claude", "gemini">>

SummaryForms == {"none", "empty", "prose"}
\* an action reply: None, "", text that is no JSON, a JSON list of action
\* objects, the list [], a JSON object, a list whose item has a type that
\* is none of the six
ActionForms  == {"none", "empty", "prose", "json_list", "json_empty",
                 "json_object", "json_bad_item"}

\* s[:n]
Slice(s, n) == SubSeq(s, 1, IF Len(s) < n THEN Len(s) ELSE n)

\* s.strip()
RECURSIVE LStrip(_)
LStrip(s) == IF s # <<>> /\ Head(s) = " " THEN LStrip(Tail(s)) ELSE s

RECURSIVE RStrip(_)
RStrip(s) == IF s # <<>> /\ s[Len(s)] = " " THEN RStrip(SubSeq(s, 1, Len(s) - 1)) ELSE s

Strip(s) == RStrip(LStrip(s))

\* the fields the two prompts are formatted from
Prompt(subject, sender, body) ==
    [subject |-> subject, sender |-> sender, body |-> Slice(body, PromptBodyLen)]

\* the exceptions of a provider that is out of quota or limits the rate
\* (ResourceExhausted, RateLimitError: HTTP 429)
ProviderErrors == {"quota_error", "rate_limit_error"}

\* a provider call whose except clause lets these exceptions through
CallRaisesQuota(outcome) == outcome \in ProviderErrors

\* the except clause of _call_gemini / _call_openai / _call_claude
\* (except Exception as e: ... return None): does the exception of this
\* outcome leave the call?
CallRaises(outcome) == FALSE

\* what _call_gemini / _call_openai / _call_claude returns (form is what
\* the provider did, chars the text returned: <<>> for None and for "")
ProviderText(provider, form, prompt) ==
    [form  |-> form, by |-> provider, about |-> prompt,
     chars |-> IF form \in {"none", "empty"} \cup ProviderErrors THEN <<>> ELSE <<form>>]

\* if result:
TruthyText(r) == r.form # "none" /\ r.chars # <<>>

\* the value last_model_used takes for a summary tier
ModelName(provider) ==
    CASE provider = "gemini" -> "gemini-1.5-flash"
      [] provider = "openai" -> "gpt-4"
      [] provider = "claude" -> "claude-3-sonnet-20240229"

\* a fallback that returns the body preview alone
FallbackPreviewOnly(subject, sender, body) ==
    [form |-> "prose", by |-> "fallback", about |-> Prompt(subject, sender, body),
     chars |-> Strip(Slice(body, PreviewLen))]

\* _fallback_summary ("(*)" stands for the bullet character U+2022)
FallbackSummary(subject, sender, body) ==
    LET preview == Strip(Slice(body, PreviewLen))
                   \o (IF Len(body) > PreviewLen THEN <<"...">> ELSE <<>>)
    IN  [form  |-> "prose", by |-> "fallback",
         about |-> Prompt(subject, sender, body),
         chars |-> <<"(*) Email from ">> \o sender \o <<"\n", "(*) Subject: ">>
                   \o subject \o <<"\n", "(*) ">> \o preview]

\* A list of action dicts (t is the Python type of the value), with the
\* tier that wrote it and the prompt input it answers.
ActionList(items, by, prompt) ==
    [t |-> "list", items |-> items, by |-> by, about |-> prompt]

FallbackActions(prompt) ==
    ActionList(<<[action |-> "Review email", type |-> "review",
                  priority |-> "medium", due_date |-> None,
                  reasoning |-> "Unable to generate AI recommendations"]>>,
               "fallback", prompt)

\* a parser that takes any text, reading what is no list as the empty list
JsonLoadsLenient(r) ==
    [ok |-> TRUE,
     value |-> [ActionList(
                   CASE r.form = "json_list" ->
                          <<[action |-> "Reply", type |-> "reply",
                             priority |-> "high", due_date |-> None,
                             reasoning |-> "asked"]>>
                     [] r.form = "json_bad_item" ->
                          <<[action |-> "Reply", type |-> "call",
                             priority |-> "high", due_date |-> None,
                             reasoning |-> "asked"]>>
                     [] OTHER -> <<>>, r.by, r.about)
                EXCEPT !.t = IF r.form = "json_object" THEN "dict" ELSE "list"]]

\* json.loads(result): ok is FALSE for JSONDecodeError; the value is what
\* the text denotes, a list or a dict
JsonLoads(r) ==
    [ok |-> r.form \in {"json_list", "json_empty", "json_object", "json_bad_item"},
     value |-> [ActionList(
                   CASE r.form = "json_list" ->
                          <<[action |-> "Reply", type |-> "reply",
                             priority |-> "high", due_date |-> None,
                             reasoning |-> "asked"]>>
                     [] r.form = "json_bad_item" ->
                          <<[action |-> "Reply", type |-> "call",
                             priority |-> "high", due_date |-> None,
                             reasoning |-> "asked"]>>
                     [] OTHER -> <<>>, r.by, r.about)
                EXCEPT !.t = IF r.form = "json_object" THEN "dict" ELSE "list"]]

\* A sub-flow: at is the position in its provider chain of the next call
\* (4 when the flow has returned), calls the replies it got so far.
NewFlow == [at |-> 1, calls |-> <<>>, done |-> FALSE]

\* _generate_summary from one provider call to the next: the call at fl.at
\* answers form.
SummaryStep(fl, form, subject, sender, body) ==
    LET provider == SummaryProviders[fl.at]
        result   == ProviderText(provider, form, Prompt(subject, sender, body))
        calls    == Append(fl.calls, result)
    IN  IF TruthyText(result)
        THEN [at |-> 4, calls |-> calls, done |-> TRUE,
              value |-> result, last_model_used |-> ModelName(provider)]
        ELSE IF fl.at = 3
        THEN [at |-> 4, calls |-> calls, done |-> TRUE,
              value |-> FallbackSummary(subject, sender, body),
              last_model_used |-> "fallback"]
        ELSE [at |-> fl.at + 1, calls |-> calls, done |-> FALSE]

\* _generate_actions from one provider call to the next
ActionsStep(fl, form, subject, sender, body) ==
    LET provider == ActionProviders[fl.at]
        result   == ProviderText(provider, form, Prompt(subject, sender, body))
        calls    == Append(fl.calls, result)
    IN  IF TruthyText(result) /\ JsonLoads(result).ok
        THEN [at |-> 4, calls |-> calls, done |-> TRUE,
              value |-> JsonLoads(result).value]
        ELSE IF fl.at = 3
        THEN [at |-> 4, calls |-> calls, done |-> TRUE,
              value |-> FallbackActions(Prompt(subject, sender, body))]
        ELSE [at |-> fl.at + 1, calls |-> calls, done |-> FALSE]

\* The whole of a sub-flow, the call at position i answering forms[i].
RECURSIVE RunSummary(_, _, _, _, _)
RunSummary(fl, forms, subject, sender, body) ==
    IF fl.done THEN fl
    ELSE RunSummary(SummaryStep(fl, forms[fl.at], subject, sender, body),
                    forms, subject, sender, body)

RECURSIVE RunActions(_, _, _, _, _)
RunActions(fl, forms, subject, sender, body) ==
    IF fl.done THEN fl
    ELSE RunActions(ActionsStep(fl, forms[fl.at], subject, sender, body),
                    forms, subject, sender, body)

(***************************************************************************)
(* CacheService (app/services/cache_service.py)                            *)
(*                                                                         *)
(* cache is the set of live Redis entries [key, json]: a key whose TTL     *)
(* elapsed is gone.  json.dumps wraps a value into its text, json.loads    *)
(* unwraps it.                                                             *)
(***************************************************************************)
\* hashlib.sha256(content.encode()).hexdigest(): one digest per content
HashContent(content) == <<"sha256">> \o content

\* f"{prefix}:{identifier}"
GenerateKey(prefix, identifier) == <<prefix, ":">> \o identifier

JsonDumps(value) == [text |-> value]
JsonLoadsValue(json) == json.text

\* CacheService.get: the value in a one-element sequence, <<>> for None
CacheGet(c, key) ==
    IF \E e \in c : e.key = key
    THEN <<JsonLoadsValue((CHOOSE e \in c : e.key = key).json)>>
    ELSE <<>>

\* CacheService.set: redis setex replaces the entry of the key
CacheSet(c, key, value) ==
    {e \in c : e.key # key} \cup {[key |-> key, json |-> JsonDumps(value)]}

(***************************************************************************)
(* The cache with its clock.  An entry of Redis carries the time it lapses *)
(* at (set_at + ttl); set_at and ttl are kept beside it as the record of   *)
(* the call that stored it.  Redis answers a GET of a lapsed key with nil  *)
(* whether or not it already removed the entry.                            *)
(***************************************************************************)
MaxCacheNow == 4
MaxTtl == 2

CacheKeys == {GenerateKey("ai_summary", HashContent(<<"a">>)),
              GenerateKey("ai_actions", HashContent(<<"a">>))}
CacheValues == {<<"v1">>, <<"v2">>}

\* a GET that returns what the key holds, lapsed or not
RedisGetNoExpiry(c, key, t) ==
    IF \E e \in c : e.key = key
    THEN <<(CHOOSE e \in c : e.key = key).json>>
    ELSE <<>>

\* redis_client.get(key) at time t: <<>> for nil
RedisGet(c, key, t) ==
    IF \E e \in c : e.key = key /\ t < e.expires_at
    THEN <<(CHOOSE e \in c : e.key = key /\ t < e.expires_at).json>>
    ELSE <<>>

\* redis_client.setex(key, ttl, json) at time t, for ttl > 0
RedisSetex(c, key, ttl, json, t) ==
    {e \in c : e.key # key}
        \cup {[key |-> key, json |-> json, expires_at |-> t + ttl,
                set_at |-> t, ttl |-> ttl]}

\* the last setex of the key, if Redis still holds its entry
LastSet(c, key) ==
    IF \E e \in c : e.key = key
    THEN LET e == CHOOSE x \in c : x.key = key
         IN  <<[value |-> JsonLoadsValue(e.json), set_at |-> e.set_at, ttl |-> e.ttl]>>
    ELSE <<>>

\* CacheService.get, lines 47-65; `fails`: the Redis call raises.  The
\* frame keeps, beside the result, the last set of the key.
CacheServiceGet(key, fails) ==
    LET value == IF fails THEN <<>> ELSE RedisGet(cache, key, now)
    IN  /\ gw' = [pc |-> "returned", client |-> "CacheService", op |-> "get",
                  key |-> key, at |-> now, raised |-> fails,
                  last_set |-> LastSet(cache, key),
                  result |-> IF value # <<>> THEN <<JsonLoadsValue(value[1])>> ELSE <<>>]
        /\ UNCHANGED <<whVars, dbVars, cache, vstore, wk, finished, ai, now,
                       upstream, sweep, subLog, dbFailures>>

\* CacheService.set, lines 67-89; SETEX refuses a ttl that is not positive
\* and the except clause answers False
CacheServiceSet(key, value, ttl, fails) ==
    LET ok == ~fails /\ ttl > 0
    IN  /\ cache' = IF ok THEN RedisSetex(cache, key, ttl, JsonDumps(value), now)
                          ELSE cache
        /\ gw' = [pc |-> "returned", client |-> "CacheService", op |-> "set",
                  key |-> key, at |-> now, raised |-> ~ok, result |-> <<ok>>]
        /\ UNCHANGED <<whVars, dbVars, vstore, wk, finished, ai, now,
                       upstream, sweep, subLog, dbFailures>>

\* Redis removes entries that lapsed
RedisExpire ==
    /\ \E e \in cache : e.expires_at <= now
    /\ cache' = {e \in cache : now < e.expires_at}
    /\ UNCHANGED <<whVars, dbVars, vstore, wk, finished, ai, subVars, dbFailures>>

\* a unit of the ttl passes
CacheClock ==
    /\ now < MaxCacheNow
    /\ now' = now + 1
    /\ UNCHANGED <<whVars, dbVars, cache, vstore, wk, finished, ai, gw,
                   upstream, sweep, subLog, dbFailures>>

(***************************************************************************)
(* The mail service: the messages GET /me/messages/{id} can return         *)
(***************************************************************************)
Message(subject, sender, contentType, content) ==
    [subject |-> subject, sender |-> sender,
     contentType |-> contentType, content |-> content,
     receivedDateTime |-> <<"2024-01-01T00:00:00", "Z">>]

\* two messages with the same subject and the same text body, two HTML
\* messages with that subject and bodies of their own, and a message that
\* comes without "receivedDateTime"
TextMsgIds == {<<"m1">>, <<"m2">>}
HtmlMsgIds == {<<"m3">>, <<"m4">>}
UndatedMsgIds == {<<"m5">>}
MsgIds == TextMsgIds \cup HtmlMsgIds \cup UndatedMsgIds

Mailbox ==
    [m \in MsgIds |->
        CASE m = <<"m1">> -> Message(<<"a">>, <<"x">>, "text", <<"b">>)
          [] m = <<"m2">> -> Message(<<"a">>, <<"y">>, "text", <<"b">>)
          [] m = <<"m3">> -> Message(<<"a">>, <<"x">>, "html", <<"<p>", "c", "</p>">>)
          [] m = <<"m4">> -> Message(<<"a">>, <<"x">>, "html", <<"<p>", "d", "</p>">>)
          [] m = <<"m5">> -> [Message(<<"e">>, <<"x">>, "text", <<"f">>)
                                 EXCEPT !.receivedDateTime = <<>>]]

(***************************************************************************)
(* process_email_notification / _process_email_async                       *)
(* (app/tasks/email_tasks.py).  A worker advances from one awaited call    *)
(* (database, token, mail service, Redis, AI engine, vector store) to the  *)
(* next; the workers are separate processes and interleave at these calls. *)
(***************************************************************************)
MaxRetries == 3

\* the database fails at most this many commits in a run
MaxDbFailures == 1

NoPrompt  == Prompt(<<>>, <<>>, <<>>)
NoMessage == Message(<<>>, <<>>, "text", <<>>)
NoTask    == [id |-> 0, subscription_id |-> None, message_id |-> <<>>,
              change_type |-> None, retries |-> 0, countdown |-> 0]

Idle == [pc |-> "idle", task |-> NoTask, user_id |-> 0, email_data |-> NoMessage,
         cached_summary |-> <<>>, cached_actions |-> <<>>,
         summary |-> <<>>, suggested_actions |-> <<>>,
         ai_model_used |-> None, provider_calls |-> 0]

\* select(User).where(User.webhook_subscription_id == subscription_id):
\* the ids of the matching rows (== None is rendered IS NULL)
UsersBySubscription(subscription_id) ==
    {u \in UserIds : users[u].webhook_subscription_id = subscription_id}

\* an existence check that never finds the row
EmailExistsNever(rows, message_id) == FALSE

\* select(Email).where(Email.message_id == message_id) ... .first()
EmailExists(rows, message_id) == \E r \in rows : r.message_id = message_id

\* a table without the unique index
UniqueViolationOff(rows, message_id) == FALSE

\* the unique index on emails.message_id (models.py: unique=True)
UniqueViolation(rows, message_id) == \E r \in rows : r.message_id = message_id

\* body_text / body_html as extracted from email_data["body"]
BodyText(d) == IF d.contentType = "text" THEN d.content ELSE <<>>
BodyHtml(d) == IF d.contentType = "html" THEN d.content ELSE <<>>

\* body_text or body_html
BodyForAI(d) == IF BodyText(d) # <<>> THEN BodyText(d) ELSE BodyHtml(d)

\* CacheService._hash_content(f"{subject}:{body_text}")
ContentHash(d) == HashContent(d.subject \o <<":">> \o BodyText(d))

SummaryKey(d) == GenerateKey("ai_summary", ContentHash(d))
ActionsKey(d) == GenerateKey("ai_actions", ContentHash(d))

\* if cached_summary and cached_actions: both lookups returned a value and
\* both values are truthy
CacheHit(cached_summary, cached_actions) ==
    /\ cached_summary # <<>> /\ cached_summary[1].chars # <<>>
    /\ cached_actions # <<>> /\ cached_actions[1].items # <<>>

\* a retry whose countdown grows by one each time
RetriedLinear(task) == [task EXCEPT !.retries = @ + 1, !.countdown = task.retries + 1]

\* raise self.retry(exc=exc, countdown=2 ** self.request.retries): the task
\* goes back to the broker, or fails for good once max_retries are used up
Retried(task) == [task EXCEPT !.retries = @ + 1, !.countdown = 2 ^ task.retries]

Done(task, outcome, user_id) ==
    [id |-> task.id, message_id |-> task.message_id,
     outcome |-> outcome, user_id |-> user_id, retries |-> task.retries]

\* lines 88-90: datetime.fromisoformat(email_data.get("receivedDateTime", "")
\* .replace("Z", "+00:00")) raises ValueError on the empty string
ReceivedAtRaises(d) == d.receivedDateTime = <<>>

\* lines 27-32: an exception leaves _process_email_async in worker w; the
\* task is sent back with its countdown, or fails once max_retries are used
Raise(w) ==
    /\ wk' = [wk EXCEPT ![w] = Idle]
    /\ IF wk[w].task.retries < MaxRetries
       THEN /\ queue' = queue \cup {Retried(wk[w].task)}
            /\ UNCHANGED finished
       ELSE /\ finished' = Append(finished, Done(wk[w].task, "failed", wk[w].user_id))
            /\ UNCHANGED queue

\* the worker takes a task off the broker
Dequeue(w) ==
    /\ wk[w].pc = "idle"
    /\ \E task \in queue :
          /\ queue' = queue \ {task}
          /\ wk' = [wk EXCEPT ![w] = [Idle EXCEPT !.pc = "resolve", !.task = task]]
    /\ UNCHANGED <<nextTaskId, http, dbVars, cache, vstore, finished, ai, subVars, dbFailures>>

\* a lookup that raises when no row matches (.one() in place of .first())
ResolveUserOne(w) ==
    /\ wk[w].pc = "resolve"
    /\ IF UsersBySubscription(wk[w].task.subscription_id) = {}
       THEN Raise(w)
       ELSE /\ \E u \in UsersBySubscription(wk[w].task.subscription_id) :
                  wk' = [wk EXCEPT ![w].pc = "token", ![w].user_id = u]
            /\ UNCHANGED <<queue, finished>>
    /\ UNCHANGED <<nextTaskId, http, dbVars, cache, vstore, ai, subVars, dbFailures>>

\* lines 46-53: find the user of the subscription
ResolveUser(w) ==
    /\ wk[w].pc = "resolve"
    /\ IF UsersBySubscription(wk[w].task.subscription_id) = {}
       THEN /\ wk' = [wk EXCEPT ![w] = Idle]
            /\ finished' = Append(finished, Done(wk[w].task, "no_user", 0))
       ELSE /\ \E u \in UsersBySubscription(wk[w].task.subscription_id) :
                  wk' = [wk EXCEPT ![w].pc = "token", ![w].user_id = u]
            /\ UNCHANGED finished
    /\ UNCHANGED <<whVars, dbVars, cache, vstore, ai, subVars, dbFailures>>

\* what acquire_token_by_refresh_token can do: answer with an access
\* token, answer with an error, raise
RefreshReplies == {"token", "error", "exception"}

\* OAuthService.get_valid_access_token, lines 177-221, for a user row whose
\* token lapses within five minutes or not and holds a refresh token or
\* not: the token in a one-element sequence, <<>> for None.  The stored
\* tokens were written by encrypt_token and decrypt under the same key.
GetValidAccessToken(expires_soon, has_refresh_token, reply) ==
    IF ~expires_soon THEN <<"access_token">>
    ELSE IF ~has_refresh_token THEN <<>>
    ELSE IF reply # "token" THEN <<>>
    ELSE <<"refreshed_access_token">>

\* a task without token that is handed to the retry
GetTokenRaising(w) ==
    /\ wk[w].pc = "token"
    /\ \E ok \in BOOLEAN :
          IF ok
          THEN /\ wk' = [wk EXCEPT ![w].pc = "fetch"]
               /\ UNCHANGED <<queue, finished>>
          ELSE Raise(w)
    /\ UNCHANGED <<nextTaskId, http, dbVars, cache, vstore, ai, subVars, dbFailures>>

\* lines 56-61: get_valid_access_token returns a token or None
GetToken(w) ==
    /\ wk[w].pc = "token"
    /\ \E expires_soon, has_refresh_token \in BOOLEAN, reply \in RefreshReplies :
          IF GetValidAccessToken(expires_soon, has_refresh_token, reply) # <<>>
          THEN /\ wk' = [wk EXCEPT ![w].pc = "fetch"]
               /\ UNCHANGED finished
          ELSE /\ wk' = [wk EXCEPT ![w] = Idle]
               /\ finished' = Append(finished, Done(wk[w].task, "no_token", wk[w].user_id))
    /\ UNCHANGED <<whVars, dbVars, cache, vstore, ai, subVars, dbFailures>>

\* lines 64-69: get_email_by_id returns the message, or None on any failure
FetchEmail(w) ==
    /\ wk[w].pc = "fetch"
    /\ \E ok \in BOOLEAN :
          IF ok /\ wk[w].task.message_id \in MsgIds
          THEN /\ wk' = [wk EXCEPT ![w].pc = "exists",
                                   ![w].email_data = Mailbox[wk[w].task.message_id]]
               /\ UNCHANGED finished
          ELSE /\ wk' = [wk EXCEPT ![w] = Idle]
               /\ finished' = Append(finished, Done(wk[w].task, "no_fetch", wk[w].user_id))
    /\ UNCHANGED <<whVars, dbVars, cache, vstore, ai, subVars, dbFailures>>

\* an existence check that waits until no other worker is past its own
CheckExistingLocked(w) ==
    /\ \A v \in Workers \ {w} : wk[v].pc \in {"idle", "resolve", "token", "fetch", "exists"}
    /\ wk[w].pc = "exists"
    /\ IF EmailExists(emails, wk[w].task.message_id)
       THEN /\ wk' = [wk EXCEPT ![w] = Idle]
            /\ finished' = Append(finished, Done(wk[w].task, "duplicate", wk[w].user_id))
            /\ UNCHANGED queue
       ELSE IF ReceivedAtRaises(wk[w].email_data)
       THEN Raise(w)
       ELSE /\ wk' = [wk EXCEPT ![w].pc = "get_summary"]
            /\ UNCHANGED <<queue, finished>>
    /\ UNCHANGED <<nextTaskId, http, dbVars, cache, vstore, ai, subVars, dbFailures>>

\* an existence check after which a message that has a row is indexed again
CheckExistingReindex(w) ==
    /\ wk[w].pc = "exists"
    /\ IF EmailExists(emails, wk[w].task.message_id)
       THEN /\ wk' = [wk EXCEPT ![w].pc = "vector"]
            /\ UNCHANGED <<queue, finished>>
       ELSE IF ReceivedAtRaises(wk[w].email_data)
       THEN Raise(w)
       ELSE /\ wk' = [wk EXCEPT ![w].pc = "get_summary"]
            /\ UNCHANGED <<queue, finished>>
    /\ UNCHANGED <<nextTaskId, http, dbVars, cache, vstore, ai, subVars, dbFailures>>

\* lines 72-94: the idempotency check, then the extraction of the fields
CheckExisting(w) ==
    /\ wk[w].pc = "exists"
    /\ IF EmailExists(emails, wk[w].task.message_id)
       THEN /\ wk' = [wk EXCEPT ![w] = Idle]
            /\ finished' = Append(finished, Done(wk[w].task, "duplicate", wk[w].user_id))
            /\ UNCHANGED queue
       ELSE IF ReceivedAtRaises(wk[w].email_data)
       THEN Raise(w)
       ELSE /\ wk' = [wk EXCEPT ![w].pc = "get_summary"]
            /\ UNCHANGED <<queue, finished>>
    /\ UNCHANGED <<nextTaskId, http, dbVars, cache, vstore, ai, subVars, dbFailures>>

\* line 100
GetCachedSummary(w) ==
    /\ wk[w].pc = "get_summary"
    /\ wk' = [wk EXCEPT ![w].pc = "get_actions",
                        ![w].cached_summary = CacheGet(cache, SummaryKey(wk[w].email_data))]
    /\ UNCHANGED <<whVars, dbVars, cache, vstore, finished, ai, subVars, dbFailures>>

\* lines 101-108
GetCachedActions(w) ==
    /\ wk[w].pc = "get_actions"
    /\ LET cached_actions == CacheGet(cache, ActionsKey(wk[w].email_data))
       IN  IF CacheHit(wk[w].cached_summary, cached_actions)
           THEN wk' = [wk EXCEPT ![w].pc = "commit",
                                 ![w].cached_summary = <<>>,
                                 ![w].summary = wk[w].cached_summary[1],
                                 ![w].suggested_actions = cached_actions[1],
                                 ![w].ai_model_used = "cached"]
           ELSE wk' = [wk EXCEPT ![w].pc = "enrich",
                                 ![w].cached_actions = cached_actions]
    /\ UNCHANGED <<whVars, dbVars, cache, vstore, finished, ai, subVars, dbFailures>>

\* The replies the providers give in the pipeline (summary chain, action
\* chain): the first tier of each chain answers, or no tier does.
PipeReplies ==
    { <<<<"prose", "none", "none">>, <<"json_list", "none", "none">>>>,
      <<<<"prose", "none", "none">>, <<"json_empty", "none", "none">>>>,
      <<<<"none", "none", "none">>, <<"none", "none", "none">>>> }

\* lines 110-125: AIService().process_email(...)
Enrich(w) ==
    /\ wk[w].pc = "enrich"
    /\ \E replies \in PipeReplies :
          LET d  == wk[w].email_data
              sm == RunSummary(NewFlow, replies[1], d.subject, d.sender, BodyForAI(d))
              ac == RunActions(NewFlow, replies[2], d.subject, d.sender, BodyForAI(d))
          IN  wk' = [wk EXCEPT ![w].pc = "set_summary",
                               ![w].cached_summary = <<>>,
                               ![w].cached_actions = <<>>,
                               ![w].summary = sm.value,
                               ![w].suggested_actions = ac.value,
                               ![w].ai_model_used = sm.last_model_used,
                               ![w].provider_calls = Len(sm.calls) + Len(ac.calls)]
    /\ UNCHANGED <<whVars, dbVars, cache, vstore, finished, ai, subVars, dbFailures>>

\* a worker that caches a summary only when a provider wrote it
SetCachedSummaryOfProvider(w) ==
    /\ wk[w].pc = "set_summary"
    /\ cache' = IF wk[w].summary.by = "fallback" THEN cache
                ELSE CacheSet(cache, SummaryKey(wk[w].email_data), wk[w].summary)
    /\ wk' = [wk EXCEPT ![w].pc = "set_actions"]
    /\ UNCHANGED <<whVars, dbVars, vstore, finished, ai, subVars, dbFailures>>

\* line 128
SetCachedSummary(w) ==
    /\ wk[w].pc = "set_summary"
    /\ cache' = CacheSet(cache, SummaryKey(wk[w].email_data), wk[w].summary)
    /\ wk' = [wk EXCEPT ![w].pc = "set_actions"]
    /\ UNCHANGED <<whVars, dbVars, vstore, finished, ai, subVars, dbFailures>>

\* line 129
SetCachedActions(w) ==
    /\ wk[w].pc = "set_actions"
    /\ cache' = CacheSet(cache, ActionsKey(wk[w].email_data), wk[w].suggested_actions)
    /\ wk' = [wk EXCEPT ![w].pc = "commit"]
    /\ UNCHANGED <<whVars, dbVars, vstore, finished, ai, subVars, dbFailures>>

\* the row of lines 136-155
EmailRow(id, f) ==
    [id |-> id, user_id |-> f.user_id, message_id |-> f.task.message_id,
     subject |-> f.email_data.subject, sender |-> f.email_data.sender,
     body_text |-> BodyText(f.email_data), body_html |-> BodyHtml(f.email_data),
     summary |-> f.summary, suggested_actions |-> f.suggested_actions,
     ai_model_used |-> f.ai_model_used]

\* a worker that upserts the vector entry before it commits the row
CommitAfterUpsert(w) ==
    /\ wk[w].pc = "commit"
    /\ vstore' = vstore \cup {wk[w].task.message_id}
    /\ \E dbok \in BOOLEAN :
       /\ ~dbok => dbFailures < MaxDbFailures
       /\ dbFailures' = IF dbok THEN dbFailures ELSE dbFailures + 1
       /\ IF dbok /\ ~UniqueViolation(emails, wk[w].task.message_id)
          THEN /\ emails' = emails \cup {EmailRow(nextRowId, wk[w])}
               /\ nextRowId' = nextRowId + 1
               /\ wk' = [wk EXCEPT ![w] = [Idle EXCEPT !.pc = "vector",
                                                       !.task = wk[w].task,
                                                       !.user_id = wk[w].user_id,
                                                       !.email_data = wk[w].email_data]]
               /\ UNCHANGED <<queue, finished>>
          ELSE /\ wk' = [wk EXCEPT ![w] = Idle]
               /\ UNCHANGED <<emails, nextRowId>>
               /\ IF wk[w].task.retries < MaxRetries
                  THEN /\ queue' = queue \cup {Retried(wk[w].task)}
                       /\ UNCHANGED finished
                  ELSE /\ finished' = Append(finished,
                                             Done(wk[w].task, "failed", wk[w].user_id))
                       /\ UNCHANGED queue
    /\ UNCHANGED <<nextTaskId, http, users, cache, ai, subVars>>

\* lines 157-158: db.add(email); await db.commit().  The commit raises when
\* the database fails (dbok = FALSE) or the unique index rejects the row;
\* the exception leaves _process_email_async and line 32 retries the task.
Commit(w) ==
    /\ wk[w].pc = "commit"
    /\ \E dbok \in BOOLEAN :
       /\ ~dbok => dbFailures < MaxDbFailures
       /\ dbFailures' = IF dbok THEN dbFailures ELSE dbFailures + 1
       /\ IF dbok /\ ~UniqueViolation(emails, wk[w].task.message_id)
          THEN /\ emails' = emails \cup {EmailRow(nextRowId, wk[w])}
               /\ nextRowId' = nextRowId + 1
               /\ wk' = [wk EXCEPT ![w] = [Idle EXCEPT !.pc = "vector",
                                                       !.task = wk[w].task,
                                                       !.user_id = wk[w].user_id,
                                                       !.email_data = wk[w].email_data]]
               /\ UNCHANGED <<queue, finished>>
          ELSE /\ wk' = [wk EXCEPT ![w] = Idle]
               /\ UNCHANGED <<emails, nextRowId>>
               /\ IF wk[w].task.retries < MaxRetries
                  THEN /\ queue' = queue \cup {Retried(wk[w].task)}
                       /\ UNCHANGED finished
                  ELSE /\ finished' = Append(finished,
                                             Done(wk[w].task, "failed", wk[w].user_id))
                       /\ UNCHANGED queue
    /\ UNCHANGED <<nextTaskId, http, users, cache, vstore, ai, subVars>>

\* an upsert whose failure leaves the task
AddToVectorStoreRaising(w) ==
    /\ wk[w].pc = "vector"
    /\ \E ok \in BOOLEAN :
          IF ok
          THEN /\ vstore' = vstore \cup {wk[w].task.message_id}
               /\ wk' = [wk EXCEPT ![w] = Idle]
               /\ finished' = Append(finished, Done(wk[w].task, "stored", wk[w].user_id))
               /\ UNCHANGED queue
          ELSE /\ Raise(w)
               /\ UNCHANGED vstore
    /\ UNCHANGED <<nextTaskId, http, dbVars, cache, ai, subVars, dbFailures>>

\* lines 161-175: vector_store.add_email returns False on any error
AddToVectorStore(w) ==
    /\ wk[w].pc = "vector"
    /\ \E ok \in BOOLEAN :
          vstore' = IF ok THEN vstore \cup {wk[w].task.message_id} ELSE vstore
    /\ wk' = [wk EXCEPT ![w] = Idle]
    /\ finished' = Append(finished, Done(wk[w].task, "stored", wk[w].user_id))
    /\ UNCHANGED <<whVars, dbVars, cache, ai, subVars, dbFailures>>

MaxAborts == 1

\* the tasks that ended at the hard time limit
Aborted(done) == Len(SelectSeq(done, LAMBDA d : d.outcome = "aborted"))

\* an end of the worker process that flushes the pending Email row
AbortFlushing(w) ==
    /\ wk[w].pc # "idle"
    /\ wk' = [wk EXCEPT ![w] = Idle]
    /\ IF wk[w].pc \in {"get_summary", "get_actions", "enrich", "set_summary",
                         "set_actions", "commit"}
          /\ ~UniqueViolation(emails, wk[w].task.message_id)
       THEN /\ emails' = emails \cup {EmailRow(nextRowId, wk[w])}
            /\ nextRowId' = nextRowId + 1
       ELSE UNCHANGED <<emails, nextRowId>>
    /\ \E lost \in BOOLEAN :
          IF lost
          THEN queue' = queue \cup {wk[w].task} /\ UNCHANGED finished
          ELSE /\ Aborted(finished) < MaxAborts
               /\ finished' = Append(finished, Done(wk[w].task, "aborted", wk[w].user_id))
               /\ UNCHANGED queue
    /\ UNCHANGED <<nextTaskId, http, users, cache, vstore, ai, subVars, dbFailures>>

\* The worker process of a task ends at any await: killed at the hard time
\* limit (task_time_limit=300), the task is failed and acknowledged; lost
\* for another reason, the message is redelivered (task_acks_late,
\* task_reject_on_worker_lost).  The open transaction is rolled back, what
\* was written to Redis stays.
Abort(w) ==
    /\ wk[w].pc # "idle"
    /\ wk' = [wk EXCEPT ![w] = Idle]
    /\ \E lost \in BOOLEAN :
          IF lost
          THEN queue' = queue \cup {wk[w].task} /\ UNCHANGED finished
          ELSE /\ Aborted(finished) < MaxAborts
               /\ finished' = Append(finished, Done(wk[w].task, "aborted", wk[w].user_id))
               /\ UNCHANGED queue
    /\ UNCHANGED <<nextTaskId, http, dbVars, cache, vstore, ai, subVars, dbFailures>>

\* A day without writes passes: Redis drops the entries, whose TTL
\* (CACHE_TTL_AI_RESPONSES, 86400 s) elapsed
CacheExpire ==
    /\ cache # {}
    /\ cache' = {}
    /\ UNCHANGED <<whVars, dbVars, vstore, wk, finished, ai, subVars, dbFailures>>

(***************************************************************************)
(* Webhook subscriptions (app/services/webhook_service.py,                 *)
(* app/services/graph_client.py, app/tasks/subscription_renewal.py).       *)
(*                                                                         *)
(* Time is counted in minutes.  upstream is the mail service's list of     *)
(* subscriptions, the i-th one named SubIds[i]; a user row holds the name  *)
(* of its subscription (None without one) and its expiry, <<>> for NULL.   *)
(***************************************************************************)
\* expiration_minutes=4230
ExpirationMinutes == 4230

\* timedelta(hours=24)
SweepHorizon == 1440

\* crontab(minute="0"): the beat starts a sweep on the hour
BeatPeriod == 60

\* the clock stops here
MaxNow == 4200

\* the mail service issues at most this many subscriptions
MaxSubs == 2

\* a running sweep sees at most this many minutes pass
MaxElapse == 1
MaxHourlyNow == 6000

\* the idle periods between two events, in hours
TickHours == {22, 23}

SubIds == <<"s1", "s2", "s3">>

SubIndex(id) == CHOOSE i \in 1..Len(SubIds) : SubIds[i] = id

\* dt.isoformat() + "Z"
IsoFormatZ(t) == [iso |-> t, tz |-> "Z"]

\* s.replace("Z", "+00:00")
ReplaceZ(s) == [s EXCEPT !.tz = IF @ = "Z" THEN "+00:00" ELSE @]

\* datetime.fromisoformat(s), as the DateTime column keeps it
FromIsoFormat(s) == <<s.iso>>

\* a subscription the mail service still delivers for
Live(id) ==
    LET i == SubIndex(id)
    IN  i <= Len(upstream) /\ upstream[i].live /\ upstream[i].exp > now

\* the payload of renew_webhook_subscription / create_webhook_subscription:
\* utcnow() + timedelta(minutes=expiration_minutes), as text
ExpirationPayload(t, expiration_minutes) == IsoFormatZ(t + expiration_minutes)

\* PATCH /subscriptions/{id}: the mail service moves the expiry and answers
\* with the subscription
Patched(up, id, payload) == [up EXCEPT ![SubIndex(id)].exp = payload.iso]

SubscriptionData(id, payload) == [id |-> id, expirationDateTime |-> payload]

NoResponse == SubscriptionData(None, IsoFormatZ(0))

\* a selection of the subscriptions that have expired already
ExpiringUsersAfterExpiry(us, expiry_threshold) ==
    {u \in UserIds :
        /\ us[u].webhook_subscription_id # None
        /\ us[u].webhook_expires_at # <<>>
        /\ us[u].webhook_expires_at[1] < expiry_threshold - SweepHorizon}

\* a selection of the subscriptions that expire before the next beat
ExpiringUsersWithinBeat(us, expiry_threshold) ==
    {u \in UserIds :
        /\ us[u].webhook_subscription_id # None
        /\ us[u].webhook_expires_at # <<>>
        /\ us[u].webhook_expires_at[1] < expiry_threshold - SweepHorizon + BeatPeriod}

\* select(User).where(User.webhook_subscription_id.isnot(None),
\*                    User.webhook_expires_at < expiry_threshold)
ExpiringUsers(us, expiry_threshold) ==
    {u \in UserIds :
        /\ us[u].webhook_subscription_id # None
        /\ us[u].webhook_expires_at # <<>>
        /\ us[u].webhook_expires_at[1] < expiry_threshold}

notSub == <<queue, nextTaskId, http, emails, nextRowId, cache, vstore, wk, finished, ai, gw>>

\* a loop that a failure leaves: the frame of the task that returned
NextUserOrReturn(f) == IdleFrame

\* back to the head of the loop of line 49
NextUser(f) == [f EXCEPT !.pc = "loop", !.user_id = 0, !.subscription_id = None,
                         !.response = NoResponse, !.called_at = 0]

\* lines 31-45: the beat starts the sweep, which selects the users
SweepStart ==
    /\ sweep.pc = "idle"
    /\ now % BeatPeriod = 0
    /\ LET expiry_threshold == now + SweepHorizon
       IN  sweep' = [pc |-> "loop", started_at |-> now,
                     todo |-> ExpiringUsers(users, expiry_threshold),
                     seen |-> users,
                     user_id |-> 0, subscription_id |-> None,
                     response |-> NoResponse, called_at |-> 0]
    /\ UNCHANGED <<notSub, users, now, upstream, subLog, dbFailures>>

\* line 49: the next selected user (in no stated order), or line 67
SweepNext ==
    /\ sweep.pc = "loop"
    /\ IF sweep.todo = {}
       THEN sweep' = IdleFrame
       ELSE \E u \in sweep.todo :
               sweep' = [sweep EXCEPT !.pc = "read", !.user_id = u, !.todo = @ \ {u}]
    /\ UNCHANGED <<notSub, users, now, upstream, subLog, dbFailures>>

\* webhook_service.py lines 91-96.  The session still holds the row that
\* line 35 loaded: the select returns that object, refreshed or not.
SweepRead ==
    /\ sweep.pc = "read"
    /\ \E row \in {sweep.seen[sweep.user_id], users[sweep.user_id]} :
          IF row.webhook_subscription_id = None
          THEN sweep' = NextUser(sweep)
          ELSE sweep' = [sweep EXCEPT !.pc = "token",
                                      !.subscription_id = row.webhook_subscription_id]
    /\ UNCHANGED <<notSub, users, now, upstream, subLog, dbFailures>>

\* webhook_service.py lines 99-102
SweepToken ==
    /\ sweep.pc = "token"
    /\ \E ok \in BOOLEAN :
          sweep' = IF ok THEN [sweep EXCEPT !.pc = "call"] ELSE NextUser(sweep)
    /\ UNCHANGED <<notSub, users, now, upstream, subLog, dbFailures>>

\* webhook_service.py lines 108-115, graph_client.py lines 236-262: the
\* request fails (None) or the mail service renews the subscription
SweepCall ==
    /\ sweep.pc = "call"
    /\ \E ok \in BOOLEAN :
          LET payload == ExpirationPayload(now, ExpirationMinutes)
          IN  IF ok /\ Live(sweep.subscription_id)
              THEN /\ upstream' = Patched(upstream, sweep.subscription_id, payload)
                   /\ sweep' = [sweep EXCEPT
                                   !.pc = "write", !.called_at = now,
                                   !.response = SubscriptionData(sweep.subscription_id,
                                                                 payload)]
              ELSE /\ sweep' = NextUser(sweep)
                   /\ UNCHANGED upstream
    /\ UNCHANGED <<notSub, users, now, subLog, dbFailures>>

\* webhook_service.py lines 118-129: UPDATE users SET webhook_expires_at;
\* a failing commit raises into the except of subscription_renewal.py line 63
SweepWrite ==
    /\ sweep.pc = "write"
    /\ \E dbok \in BOOLEAN :
       /\ ~dbok => dbFailures < MaxDbFailures
       /\ dbFailures' = IF dbok THEN dbFailures ELSE dbFailures + 1
       /\ IF dbok
          THEN /\ users' = [users EXCEPT ![sweep.user_id].webhook_expires_at =
                               FromIsoFormat(ReplaceZ(sweep.response.expirationDateTime))]
               /\ subLog' = Append(subLog,
                                   [user_id |-> sweep.user_id,
                                    started_at |-> sweep.started_at,
                                    selected |-> sweep.seen[sweep.user_id],
                                    called_at |-> sweep.called_at,
                                    subscription_id |-> sweep.subscription_id])
          ELSE UNCHANGED <<users, subLog>>
    /\ sweep' = NextUser(sweep)
    /\ UNCHANGED <<notSub, now, upstream>>

\* a create that deletes the subscription the user held before
ApiCreateReplacing(u) ==
    /\ Len(upstream) < MaxSubs
    /\ \E token, ok \in BOOLEAN :
          LET payload == ExpirationPayload(now, ExpirationMinutes)
              id      == SubIds[Len(upstream) + 1]
              old     == users[u].webhook_subscription_id
              kept    == IF old = None THEN upstream
                         ELSE [upstream EXCEPT ![SubIndex(old)].live = FALSE]
          IN  IF token /\ ok
              THEN /\ upstream' = Append(kept, [exp |-> payload.iso, live |-> TRUE])
                   /\ users' = [users EXCEPT ![u] =
                                   [webhook_subscription_id |-> id,
                                    webhook_expires_at |->
                                        FromIsoFormat(ReplaceZ(payload))]]
              ELSE UNCHANGED <<upstream, users>>
    /\ UNCHANGED <<notSub, now, sweep, subLog, dbFailures>>

\* POST /webhooks/subscribe: create_subscription_for_user, lines 18-73.  The
\* user's earlier subscription is neither looked up nor deleted.
ApiCreate(u) ==
    /\ Len(upstream) < MaxSubs
    /\ \E token, ok \in BOOLEAN :
          LET payload == ExpirationPayload(now, ExpirationMinutes)
              id      == SubIds[Len(upstream) + 1]
          IN  IF token /\ ok
              THEN /\ upstream' = Append(upstream, [exp |-> payload.iso, live |-> TRUE])
                   /\ users' = [users EXCEPT ![u] =
                                   [webhook_subscription_id |-> id,
                                    webhook_expires_at |->
                                        FromIsoFormat(ReplaceZ(payload))]]
              ELSE UNCHANGED <<upstream, users>>
    /\ UNCHANGED <<notSub, now, sweep, subLog, dbFailures>>

\* a renewal that stores the id of the answer along with its expiration,
\* and takes the id of a subscription the mail service made anew
ApiRenewStoringId(u) ==
    /\ users[u].webhook_subscription_id # None
    /\ \E token, ok \in BOOLEAN :
          LET payload == ExpirationPayload(now, ExpirationMinutes)
              id      == users[u].webhook_subscription_id
          IN  IF token /\ ok /\ Live(id)
              THEN /\ upstream' = Patched(upstream, id, payload)
                   /\ users' = [users EXCEPT ![u] =
                                   [webhook_subscription_id |-> SubIds[SubIndex(id) + 1],
                                    webhook_expires_at |->
                                        FromIsoFormat(ReplaceZ(payload))]]
              ELSE UNCHANGED <<upstream, users>>
    /\ UNCHANGED <<notSub, now, sweep, subLog, dbFailures>>

\* POST /webhooks/renew: renew_subscription_for_user, lines 75-129
ApiRenew(u) ==
    /\ users[u].webhook_subscription_id # None
    /\ \E token, ok \in BOOLEAN :
          LET payload == ExpirationPayload(now, ExpirationMinutes)
              id      == users[u].webhook_subscription_id
          IN  IF token /\ ok /\ Live(id)
              THEN /\ upstream' = Patched(upstream, id, payload)
                   /\ users' = [users EXCEPT ![u].webhook_expires_at =
                                   FromIsoFormat(ReplaceZ(payload))]
              ELSE UNCHANGED <<upstream, users>>
    /\ UNCHANGED <<notSub, now, sweep, subLog, dbFailures>>

\* what _make_request gets for DELETE /subscriptions/{id}: an error, a
\* success without a body, or a success with a JSON body
DeleteReplies == {"error", "no_content", "json"}

\* _make_request, lines 62-76: response.json() of an empty body raises
RequestResult(reply) == IF reply = "json" THEN <<"data">> ELSE <<>>

\* DELETE /webhooks/unsubscribe: delete_subscription_for_user, lines 131-178
ApiDelete(u) ==
    /\ users[u].webhook_subscription_id # None
    /\ \E token \in BOOLEAN, reply \in DeleteReplies :
          LET id      == users[u].webhook_subscription_id
              success == RequestResult(reply) # <<>>
          IN  /\ ~Live(id) => reply = "error"
              /\ IF token /\ reply # "error"
                 THEN upstream' = [upstream EXCEPT ![SubIndex(id)].live = FALSE]
                 ELSE UNCHANGED upstream
              /\ IF token /\ success
                 THEN users' = [users EXCEPT ![u] =
                                   [webhook_subscription_id |-> None,
                                    webhook_expires_at |-> <<>>]]
                 ELSE UNCHANGED users
    /\ UNCHANGED <<notSub, now, sweep, subLog, dbFailures>>

\* time passes between two events
Tick ==
    /\ sweep.pc = "idle"
    /\ \E h \in TickHours :
          LET t == ((now \div BeatPeriod) + h) * BeatPeriod
          IN  t <= MaxNow /\ now' = t
    /\ UNCHANGED <<notSub, users, upstream, sweep, subLog, dbFailures>>

\* time passes until every subscription the mail service holds has expired,
\* up to the beat after the last expiry
Lapse ==
    /\ sweep.pc = "idle"
    /\ now <= MaxNow
    /\ upstream # <<>>
    /\ LET last == CHOOSE e \in {upstream[i].exp : i \in 1..Len(upstream)} :
                       \A i \in 1..Len(upstream) : upstream[i].exp <= e
       IN  now' = ((last \div BeatPeriod) + 1) * BeatPeriod
    /\ UNCHANGED <<notSub, users, upstream, sweep, subLog, dbFailures>>

\* the hour until the next beat passes, after a sweep that renewed every
\* subscription it had to: no user is left that the sweep selects
Hour ==
    /\ sweep.pc = "idle"
    /\ now % BeatPeriod = 0
    /\ now + BeatPeriod <= MaxHourlyNow
    /\ ExpiringUsers(users, now + SweepHorizon) = {}
    /\ now' = now + BeatPeriod
    /\ UNCHANGED <<notSub, users, upstream, sweep, subLog, dbFailures>>

\* a minute passes while the sweep runs
Elapse ==
    /\ sweep.pc # "idle"
    /\ now % BeatPeriod < MaxElapse
    /\ now' = now + 1
    /\ UNCHANGED <<notSub, users, upstream, sweep, subLog, dbFailures>>

(***************************************************************************)
(* The Graph client (app/services/graph_client.py) and the synchronous     *)
(* client of the command line (email_client.py).                           *)
(*                                                                         *)
(* A URL is a str.  What the mail service does with one request is a       *)
(* reply: an answer with a 2xx status and a JSON object as body, with a    *)
(* 2xx status and the body {}, with a 2xx status and no body (204), with a *)
(* status that is not 2xx, or no answer (timeout, connection error).       *)
(* A Python value returned to the caller is [t, v]: None, True, False, a   *)
(* list (v its items) or a dict (v holds it).                              *)
(***************************************************************************)
MaxUnread == 3
MaxPage == 2
MaxCount == 3

BaseUrl == <<"https://graph.microsoft.com/v1.0">>

\* str(n) of the numbers put into a query string
NumStr(n) == <<"0", "1", "2", "3", "4", "5", "6", "7", "8", "9">>[n + 1]

PyNone == [t |-> "None", v |-> <<>>]
PyBool(b) == [t |-> IF b THEN "True" ELSE "False", v |-> <<>>]
PyList(l) == [t |-> "list", v |-> l]
PyOptional(d) == IF d = <<>> THEN PyNone ELSE [t |-> "dict", v |-> d]

\* a JSON object of the mail service: the resource it describes, and for a
\* listing the keys "value" and "@odata.nextLink" (each present or not)
Dict(id, value, next) == [id |-> id, value |-> value, next |-> next]
EmptyDict == Dict(<<>>, <<>>, <<>>)
\* bool(d) of a dict
TruthyDict(d) == d # EmptyDict

\* the unread messages of a mailbox holding U of them, newest first
Unread(U) == [k \in 1..U |-> [id |-> k]]

Min(a, b) == IF a <= b THEN a ELSE b

\* the page of at most `size` unread messages after the first `cursor`, and
\* the continuation cursor when messages remain
Page(U, size, cursor) ==
    [value |-> SubSeq(Unread(U), cursor + 1, Min(cursor + size, U)),
     next  |-> IF cursor + size < U THEN <<cursor + size>> ELSE <<>>]

ReplyKinds == {"json", "empty_json", "no_content", "status_error", "timeout", "connect_error"}

\* what client.request, raise_for_status and response.json() raise on a reply
RequestRaises(kind) ==
    CASE kind = "status_error"  -> <<"HTTPStatusError">>
      [] kind = "timeout"       -> <<"TimeoutException">>
      [] kind = "connect_error" -> <<"ConnectError">>
      [] kind = "no_content"    -> <<"JSONDecodeError">>
      [] OTHER                  -> <<>>

\* a handler list that names httpx.HTTPStatusError only
ExceptClauseStatusOnly(exc) ==
    IF exc = "HTTPStatusError" THEN "HTTPStatusError" ELSE "uncaught"

\* lines 70-75: the except clause that takes an exception
ExceptClause(exc) ==
    IF exc = "HTTPStatusError" THEN "HTTPStatusError" ELSE "Exception"

\* CacheService.get_graph_response / set_graph_response: the key of a URL
GraphKey(url) == GenerateKey("graph_api", HashContent(url))

\* GraphClient._make_request(method, endpoint, use_cache) against cache c,
\* the mail service answering with reply `kind` and, if JSON, the object
\* `body`: the data returned (<<>> is None), the exception that leaves the
\* method, whether the cache was read, the service contacted and the
\* answer stored, and the cache afterwards
MakeRequest(method, endpoint, use_cache, kind, body, c) ==
    LET url == BaseUrl \o endpoint
        consult == method = "GET" /\ use_cache
        cached == IF consult THEN CacheGet(c, GraphKey(url)) ELSE <<>>
        exc == RequestRaises(kind)
        data == IF kind = "json" THEN body ELSE EmptyDict
    IN  IF cached # <<>> /\ TruthyDict(cached[1])
        THEN [data |-> cached, raised |-> <<>>, looked_up |-> TRUE,
              contacted |-> FALSE, stored |-> FALSE, cache |-> c]
        ELSE IF exc = <<>>
        THEN [data |-> <<data>>, raised |-> <<>>, looked_up |-> consult,
              contacted |-> TRUE, stored |-> consult,
              cache |-> IF consult THEN CacheSet(c, GraphKey(url), data) ELSE c]
        ELSE [data |-> <<>>,
              raised |-> IF ExceptClause(exc[1]) = "uncaught" THEN exc ELSE <<>>,
              looked_up |-> consult, contacted |-> TRUE, stored |-> FALSE,
              cache |-> c]

\* the request each operation makes: method, endpoint, use_cache
Request(method, endpoint, use_cache) ==
    [method |-> method, endpoint |-> endpoint, use_cache |-> use_cache]

\* line 112-128: the endpoint of fetch_emails with its query string
FetchEmailsEndpoint(filter_query, top, skip) ==
    <<"/me/mailfolders/inbox/messages?", "$top=", NumStr(top), "&$skip=",
      NumStr(skip), "&$orderby=receivedDateTime desc">>
    \o IF filter_query # <<>> THEN <<"&$filter=">> \o filter_query ELSE <<>>

ListOps == {"fetch_emails", "fetch_unread_emails"}
BoolOps == {"mark_as_read", "delete_webhook_subscription"}
DataOps == {"get_user_profile", "get_email_by_id", "create_webhook_subscription",
            "renew_webhook_subscription", "get_webhook_subscription"}
GatewayOps == ListOps \cup BoolOps \cup DataOps

\* the request of operation op; top is the `top` or `max_count` argument
RequestOf(op, top) ==
    CASE op = "get_user_profile" -> Request("GET", <<"/me">>, TRUE)
      [] op = "fetch_emails" ->
            Request("GET", FetchEmailsEndpoint(<<>>, top, 0), FALSE)
      [] op = "fetch_unread_emails" ->
            Request("GET", FetchEmailsEndpoint(<<"isRead eq false">>, top, 0), FALSE)
      [] op = "get_email_by_id" -> Request("GET", <<"/me/messages/", "m1">>, FALSE)
      [] op = "mark_as_read" -> Request("PATCH", <<"/me/messages/", "m1">>, FALSE)
      [] op = "create_webhook_subscription" -> Request("POST", <<"/subscriptions">>, FALSE)
      [] op = "renew_webhook_subscription" ->
            Request("PATCH", <<"/subscriptions/", "s1">>, FALSE)
      [] op = "delete_webhook_subscription" ->
            Request("DELETE", <<"/subscriptions/", "s1">>, FALSE)
      [] op = "get_webhook_subscription" ->
            Request("GET", <<"/subscriptions/", "s1">>, FALSE)

\* the JSON object the mail service answers a request of op with: a listing
\* is the first page, of the size asked for unless the service pages smaller
BodyOf(op, top, U, P) ==
    IF op \in ListOps
    THEN LET pg == Page(U, Min(top, P), 0)
         IN  Dict(RequestOf(op, top).endpoint, <<pg.value>>, pg.next)
    ELSE Dict(RequestOf(op, top).endpoint, <<>>, <<>>)

\* what each operation makes of the data of _make_request
\*   fetch_emails (line 130): result.get("value", []) if result else []
\*   mark_as_read, delete_webhook_subscription: result is not None
\*   the others: the data itself
ResultOf(op, data) ==
    CASE op \in ListOps ->
            IF data # <<>> /\ TruthyDict(data[1]) /\ data[1].value # <<>>
            THEN PyList(data[1].value[1]) ELSE PyList(<<>>)
      [] op \in BoolOps -> PyBool(data # <<>>)
      [] OTHER -> PyOptional(data)

\* "no result" of each operation
NoResult(op) ==
    CASE op \in ListOps -> PyList(<<>>)
      [] op \in BoolOps -> PyBool(FALSE)
      [] OTHER -> PyNone

\* one call of a GraphClient operation; the mailbox and the page limit of
\* the service matter to the listings only
GatewayCall ==
    \E op \in GatewayOps, kind \in ReplyKinds :
    \E top \in IF op \in ListOps THEN 1..MaxCount ELSE {1},
       U \in IF op \in ListOps THEN 0..MaxUnread ELSE {0},
       P \in IF op \in ListOps THEN 1..MaxPage ELSE {1} :
       LET rq == RequestOf(op, top)
           r  == MakeRequest(rq.method, rq.endpoint, rq.use_cache, kind,
                             BodyOf(op, top, U, P), cache)
       IN  /\ gw' = [pc |-> "returned", client |-> "GraphClient", op |-> op,
                     method |-> rq.method, url |-> BaseUrl \o rq.endpoint,
                     kind |-> kind, max_count |-> <<top>>, unread |-> U,
                     page_limit |-> P, cached_before |-> CacheGet(cache, GraphKey(BaseUrl \o rq.endpoint)) # <<>>,
                     looked_up |-> r.looked_up, contacted |-> r.contacted,
                     stored |-> r.stored, raised |-> r.raised,
                     result |-> IF r.raised = <<>> THEN ResultOf(op, r.data) ELSE PyNone]
           /\ cache' = r.cache
           /\ UNCHANGED <<whVars, dbVars, vstore, wk, finished, ai, now, upstream,
                          sweep, subLog, dbFailures>>

\* OutlookClient.fetch_unread_emails, lines 98-112: the loop over the pages,
\* from the request of the page after `cursor` on; the request numbered
\* fail_at (0: none) raises
RECURSIVE OutlookLoop(_, _, _, _, _, _, _)
OutlookLoop(U, P, max_count, cursor, emails_all, n, fail_at) ==
    IF n = fail_at THEN [raised |-> TRUE, emails |-> emails_all, requests |-> n]
    ELSE LET data == Page(U, Min(50, P), cursor)
             all  == emails_all \o data.value
         IN  IF max_count # <<>> /\ max_count[1] # 0 /\ Len(all) >= max_count[1]
             THEN [raised |-> FALSE, emails |-> SubSeq(all, 1, max_count[1]),
                   requests |-> n]
             ELSE IF data.next = <<>>
             THEN [raised |-> FALSE, emails |-> all, requests |-> n]
             ELSE OutlookLoop(U, P, max_count, data.next[1], all, n + 1, fail_at)

\* OutlookClient.fetch_unread_emails(max_count): [] when anything raised
OutlookFetchUnread(U, P, max_count, fail_at) ==
    LET r == OutlookLoop(U, P, max_count, 0, <<>>, 1, fail_at)
    IN  [r EXCEPT !.emails = IF r.raised THEN <<>> ELSE @]

\* one call of OutlookClient.fetch_unread_emails
OutlookCall ==
    \E max_count \in {<<>>} \cup {<<n>> : n \in 1..MaxCount},
       U \in 0..MaxUnread, P \in 1..MaxPage, fail_at \in 0..MaxUnread :
       LET r == OutlookFetchUnread(U, P, max_count, fail_at)
       IN  /\ gw' = [pc |-> "returned", client |-> "OutlookClient",
                     op |-> "fetch_unread_emails", method |-> "GET",
                     url |-> BaseUrl \o <<"/me/mailfolders/inbox/messages?",
                                          "$filter=isRead eq false",
                                          "&$orderby=receivedDateTime desc&$top=50">>,
                     kind |-> IF r.raised THEN "status_error" ELSE "json",
                     max_count |-> max_count, unread |-> U, page_limit |-> P,
                     cached_before |-> FALSE, looked_up |-> FALSE,
                     contacted |-> TRUE, stored |-> FALSE, raised |-> <<>>,
                     result |-> PyList(r.emails)]
           /\ UNCHANGED <<whVars, dbVars, cache, vstore, wk, finished, ai, now,
                          upstream, sweep, subLog, dbFailures>>

(***************************************************************************)
(* Initial values                                                          *)
(***************************************************************************)
\* The state of a deployment in which user 1 subscribed half an hour ago
\* (the mail service registered subscription "s1" for 4230 minutes) and
\* user 2 has no subscription; nothing was received or processed yet.
Init ==
    /\ queue = {}
    /\ nextTaskId = 0
    /\ http = NoRequest
    /\ users = [u \in UserIds |->
                  IF u = 1 THEN [webhook_subscription_id |-> "s1",
                                 webhook_expires_at |-> <<4200>>]
                  ELSE [webhook_subscription_id |-> None,
                        webhook_expires_at |-> <<>>]]
    /\ emails = {}
    /\ nextRowId = 1
    /\ cache = {}
    /\ vstore = {}
    /\ wk = [w \in Workers |-> Idle]
    /\ finished = <<>>
    /\ ai = IdleFrame
    /\ now = 0
    /\ upstream = <<[exp |-> 4200, live |-> TRUE]>>
    /\ sweep = IdleFrame
    /\ subLog = <<>>
    /\ dbFailures = 0
    /\ gw = IdleFrame

(***************************************************************************)
(* SpecWebhook: one request, of every shape, with every pattern of broker  *)
(* failures on its .delay() calls.                                         *)
(***************************************************************************)
Receive ==
    /\ http = NoRequest
    /\ \E body \in Bodies :
         \E fails \in SUBSET (1..Len(DelayCalls(LoopOver(body)))) :
            ReceiveWebhook(body, fails)

NextWebhook == Receive

SpecWebhook == Init /\ [][NextWebhook]_vars

(***************************************************************************)
(* SpecAI: one process_email call.  The two coroutines handed to           *)
(* asyncio.gather advance one provider call at a time, in any order.       *)
(***************************************************************************)
LongBody == [i \in 1..(PreviewLen + 1) |-> "b"]

AISubjects == {<<>>, <<"a">>}
AISenders  == {<<>>, <<"x">>}
AIBodies   == {<<>>, <<" ">>, <<"b">>, LongBody}

AIStart ==
    /\ ai.pc = "idle"
    /\ \E subject \in AISubjects, sender \in AISenders, body \in AIBodies :
          ai' = [pc |-> "gather", subject |-> subject, sender |-> sender,
                 body |-> body, summary |-> NewFlow, actions |-> NewFlow,
                 last_model_used |-> None, completed |-> <<>>, result |-> <<>>]
    /\ UNCHANGED <<whVars, dbVars, wkVars, subVars>>

AISummaryCall ==
    /\ ai.pc = "gather" /\ ~ai.summary.done
    /\ \E form \in SummaryForms \cup ProviderErrors :
          LET fl == SummaryStep(ai.summary, form, ai.subject, ai.sender, ai.body)
          IN  IF CallRaises(form)
              THEN ai' = [ai EXCEPT !.pc = "raised"]
              ELSE ai' = [ai EXCEPT !.summary = fl,
                                    !.last_model_used =
                                        IF fl.done THEN fl.last_model_used ELSE @,
                                    !.completed =
                                        IF fl.done THEN Append(@, "summary") ELSE @]
    /\ UNCHANGED <<whVars, dbVars, wkVars, subVars>>

AIActionsCall ==
    /\ ai.pc = "gather" /\ ~ai.actions.done
    /\ \E form \in ActionForms \cup ProviderErrors :
          IF CallRaises(form)
          THEN ai' = [ai EXCEPT !.pc = "raised"]
          ELSE LET fl == ActionsStep(ai.actions, form, ai.subject, ai.sender, ai.body)
               IN  ai' = [ai EXCEPT !.actions = fl,
                                    !.completed =
                                        IF fl.done THEN Append(@, "actions") ELSE @]
    /\ UNCHANGED <<whVars, dbVars, wkVars, subVars>>

\* results in the order the coroutines completed in
GatherAsCompleted(f) ==
    [i \in 1..2 |-> IF f.completed[i] = "summary" THEN f.summary.value
                                                   ELSE f.actions.value]

\* asyncio.gather(summary_task, actions_task): the results in the order of
\* the arguments
Gather(f) == <<f.summary.value, f.actions.value>>

\* summary, actions = await asyncio.gather(...); return summary, actions
AIReturn ==
    /\ ai.pc = "gather" /\ ai.summary.done /\ ai.actions.done
    /\ ai' = [ai EXCEPT !.pc = "returned", !.result = Gather(ai)]
    /\ UNCHANGED <<whVars, dbVars, wkVars, subVars>>

NextAI == AIStart \/ AISummaryCall \/ AIActionsCall \/ AIReturn

SpecAI == Init /\ [][NextAI]_vars

(***************************************************************************)
(* Spec: the receiver takes single-notification batches for the messages   *)
(* of the mailbox; two workers process the tasks.                          *)
(***************************************************************************)
MaxDeliveries == 2

\* a notification of user 1's subscription for each message, and one of a
\* subscription no user holds
PipeBody(m, sb) ==
    [kind |-> "object", token |-> Absent,
     value |-> JList(<<[t |-> "dict", res |-> JStr(<<"me", Slash>> \o m),
                        sub |-> sb, ct |-> "created"]>>)]

PipeBodies == { PipeBody(m, "s1") : m \in TextMsgIds } \cup { PipeBody(<<"m1">>, "s9") }

Deliver ==
    /\ nextTaskId < MaxDeliveries
    /\ \E body \in PipeBodies : ReceiveWebhook(body, {})

\* the next awaited call of the task that worker w runs
WorkerStep(w) ==
    \/ ResolveUser(w)
    \/ GetToken(w)
    \/ FetchEmail(w)
    \/ CheckExisting(w)
    \/ GetCachedSummary(w)
    \/ GetCachedActions(w)
    \/ Enrich(w)
    \/ SetCachedSummary(w)
    \/ SetCachedActions(w)
    \/ Commit(w)
    \/ AddToVectorStore(w)

Work == \E w \in Workers : Dequeue(w) \/ WorkerStep(w)

Next == Deliver \/ Work \/ CacheExpire

Spec == Init /\ [][Next]_vars

(***************************************************************************)
(* SpecAbort: the pipeline with worker processes that end at any step,    *)
(* within the lifetime of the cache entries.                               *)
(***************************************************************************)
NextAbort == Deliver \/ Work \/ \E w \in Workers : Abort(w)

SpecAbort == Init /\ [][NextAbort]_vars

(***************************************************************************)
(* SpecCache: sets and gets of CacheService while time passes.             *)
(***************************************************************************)
NextCache ==
    \/ \E key \in CacheKeys, fails \in BOOLEAN : CacheServiceGet(key, fails)
    \/ \E key \in CacheKeys, value \in CacheValues, ttl \in 0..MaxTtl, fails \in BOOLEAN :
          CacheServiceSet(key, value, ttl, fails)
    \/ RedisExpire
    \/ CacheClock

SpecCache == Init /\ [][NextCache]_vars

(***************************************************************************)
(* SpecNoSub: as Spec, with notifications that carry no subscriptionId     *)
(* (notification.get("subscriptionId") is None) as well.                   *)
(***************************************************************************)
DeliverNoSub ==
    /\ nextTaskId < MaxDeliveries
    /\ \E body \in PipeBodies \cup {PipeBody(<<"m1">>, None)} : ReceiveWebhook(body, {})

NextNoSub == DeliverNoSub \/ Work \/ CacheExpire

SpecNoSub == Init /\ [][NextNoSub]_vars

(***************************************************************************)
(* SpecBatch: process_email_batch runs for either user and the workers     *)
(* process the tasks it sends.  User 1 has m1 unread, user 2 has m2.       *)
(***************************************************************************)
BatchUnread(u) == IF u = 1 THEN <<<<"m1">>>> ELSE <<<<"m2">>>>

\* user.webhook_subscription_id or ""
OrEmpty(subscription_id) == IF subscription_id = None THEN "" ELSE subscription_id

\* the .delay() arguments of lines 224-233, one call per unread email
BatchCalls(u, unread) ==
    [i \in 1..Len(unread) |->
        [subscription_id |-> OrEmpty(users[u].webhook_subscription_id),
         message_id |-> unread[i], change_type |-> "created"]]

\* _process_email_batch_async, lines 193-233: without token nothing is
\* sent; fetch_unread_emails gives [] when its request fails
ProcessEmailBatch(u) ==
    /\ nextTaskId < MaxDeliveries
    /\ \E token, fetched \in BOOLEAN :
          LET unread == IF fetched THEN BatchUnread(u) ELSE <<>>
              calls  == IF token THEN BatchCalls(u, unread) ELSE <<>>
          IN  /\ queue' = queue \cup NewTasks(calls, nextTaskId)
              /\ nextTaskId' = nextTaskId + Len(calls)
    /\ UNCHANGED <<http, dbVars, wkVars, ai, subVars>>

NextBatch == (\E u \in UserIds : ProcessEmailBatch(u)) \/ Work \/ CacheExpire

SpecBatch == Init /\ [][NextBatch]_vars

(***************************************************************************)
(* SpecHtml: as Spec, for the HTML messages of the mailbox.                *)
(***************************************************************************)
DeliverHtml ==
    /\ nextTaskId < MaxDeliveries
    /\ \E m \in HtmlMsgIds : ReceiveWebhook(PipeBody(m, "s1"), {})

NextHtml == DeliverHtml \/ Work \/ CacheExpire

SpecHtml == Init /\ [][NextHtml]_vars

(***************************************************************************)
(* SpecRetry: as Spec, for a message whose processing raises on every      *)
(* attempt and one that is processed normally.                             *)
(***************************************************************************)
DeliverRetry ==
    /\ nextTaskId < MaxDeliveries
    /\ \E m \in UndatedMsgIds \cup {<<"m1">>} : ReceiveWebhook(PipeBody(m, "s1"), {})

NextRetry == DeliverRetry \/ Work \/ CacheExpire

SpecRetry == Init /\ [][NextRetry]_vars

(***************************************************************************)
(* SpecSub: the hourly sweep, the subscription endpoints and the clock.    *)
(***************************************************************************)
Sweep == SweepStart \/ SweepNext \/ SweepRead \/ SweepToken \/ SweepCall \/ SweepWrite

Api == \E u \in UserIds : ApiCreate(u) \/ ApiRenew(u) \/ ApiDelete(u)

NextSub == Sweep \/ Api \/ Tick \/ Elapse

SpecSub == Init /\ [][NextSub]_vars

(***************************************************************************)
(* SpecHourly: the sweep runs at every beat and the hour passes only once  *)
(* its renewals have succeeded; users subscribe at any hour.               *)
(***************************************************************************)
NextHourly == Sweep \/ Hour \/ \E u \in UserIds : ApiCreate(u)

SpecHourly == Init /\ [][NextHourly]_vars

(***************************************************************************)
(* SpecLapse: the sweep alone, while time passes beyond the expiry of the   *)
(* subscriptions.  Celery beat sends the sweep every hour and a worker     *)
(* runs it to its end, hence the fairness of Sweep.  The clock stands at   *)
(* the beat after the last expiry, where the sweep starts again and again: *)
(* these sweeps stand for the sweeps of the hours that follow, which       *)
(* select the same rows (webhook_expires_at < now + 24 h stays true) and   *)
(* get the same answers (an expired subscription stays expired).  The      *)
(* token service is not down for ever: a sweep gets a token again and      *)
(* again.                                                                  *)
(***************************************************************************)
NextLapse == Sweep \/ Tick \/ Lapse

SpecLapse ==
    /\ Init /\ [][NextLapse]_vars
    /\ WF_vars(Sweep) /\ WF_vars(Lapse)
    /\ SF_vars(SweepToken /\ sweep'.pc = "call")

(***************************************************************************)
(* SpecGateway: calls of the Graph client operations and of the command    *)
(* line client, on every reply of the mail service, with the Redis cache.  *)
(***************************************************************************)
NextGateway == GatewayCall \/ OutlookCall \/ CacheExpire

SpecGateway == Init /\ [][NextGateway]_vars

(***************************************************************************)
(*                             The properties                               *)
(***************************************************************************)

\* The characters of r after its last "/" (r contains one).
AfterLastSlash(r) ==
    LET k == CHOOSE i \in 1..Len(r) :
                 r[i] = Slash /\ \A j \in (i + 1)..Len(r) : r[j] # Slash
    IN  SubSeq(r, k + 1, Len(r))

\* An entry with a parseable resource path: an object whose resource is a
\* string holding a "/" and not ending in one.
Parseable(n) ==
    /\ n.t = "dict"
    /\ n.res.t = "str"
    /\ Contains(n.res.s, Slash)
    /\ n.res.s[Len(n.res.s)] # Slash

IsBatch(body) ==
    body.kind = "object" /\ body.token.t = "absent" /\ body.value.t \in {"list", "absent"}

\* C3: a notification batch with N parseable entries is answered 202 after
\* exactly N .delay() calls, one per parseable entry in order, each carrying
\* the characters after the last "/" of that entry's resource as message_id;
\* when the broker takes every call the queue holds exactly these N tasks.
C3_EnqueuesParseable ==
    IsBatch(http.body) =>
        LET good == SelectSeq(http.body.value.l, Parseable)
        IN  /\ http.status = 202
            /\ Len(http.calls) = Len(good)
            /\ \A i \in 1..Len(good) :
                  /\ http.calls[i].message_id = AfterLastSlash(good[i].res.s)
                  /\ http.calls[i].subscription_id = good[i].sub
            /\ http.accepted = http.calls =>
                  /\ Cardinality(queue) = Len(good)
                  /\ \A i \in 1..Len(good) :
                        \E t \in queue :
                           /\ t.id = i
                           /\ t.message_id = AfterLastSlash(good[i].res.s)

\* a batch of one parseable and one unparseable entry, one task queued
C3_Witness ==
    /\ IsBatch(http.body)
    /\ Len(http.body.value.l) = 2
    /\ Len(SelectSeq(http.body.value.l, Parseable)) = 1
    /\ ~Parseable(http.body.value.l[1])
    /\ http.status = 202
    /\ Cardinality(queue) = 1

\* C4: a body whose validationToken is a string is answered 200 with exactly
\* that string as the body, and nothing is enqueued, whatever "value" holds.
C4_EchoesToken ==
    (http.body.kind = "object" /\ http.body.token.t = "str") =>
        /\ http.status = 200
        /\ http.content = http.body.token.s
        /\ http.calls = <<>>
        /\ queue = {}
        /\ nextTaskId = 0

C4_Witness ==
    /\ http.body.kind = "object"
    /\ http.body.token = JStr(<<"a", "b", "c", "1", "2", "3">>)
    /\ http.body.value = OneTask
    /\ http.status = 200
    /\ http.content = <<"a", "b", "c", "1", "2", "3">>
    /\ queue = {}

\* C5: every request is answered 200, 202 or 400, and malformed JSON 400.
C5_NoServerError ==
    http.body.kind # "none" =>
        /\ http.status \in {200, 202, 400}
        /\ http.body.kind = "malformed" => http.status = 400

\* every reply the flow got so far is a failure: None or the empty string
AllFailed(fl) == \A i \in 1..Len(fl.calls) : ~TruthyText(fl.calls[i])

\* C6: when every provider call of both chains failed or returned nothing,
\* both sub-flows have returned, and process_email returns a non-empty
\* summary and a non-empty action list: the deterministic fallbacks.
C6_FallbackNonEmpty ==
    ai.pc # "idle" =>
       /\ \A fl \in {ai.summary, ai.actions} :
             (Len(fl.calls) = 3 /\ AllFailed(fl)) => fl.done
       /\ (ai.pc = "returned" /\ AllFailed(ai.summary) /\ AllFailed(ai.actions)) =>
             /\ ai.summary.value.chars # <<>>
             /\ ai.summary.value.by = "fallback"
             /\ ai.actions.value.items # <<>>
             /\ ai.actions.value.by = "fallback"

\* all six calls failed on an email with empty subject, sender and body
C6_Witness ==
    /\ ai.pc = "returned"
    /\ ai.subject = <<>> /\ ai.sender = <<>> /\ ai.body = <<>>
    /\ Len(ai.summary.calls) = 3 /\ AllFailed(ai.summary)
    /\ Len(ai.actions.calls) = 3 /\ AllFailed(ai.actions)
    /\ \E i \in 1..3 : ai.actions.calls[i].form = "none"
    /\ \E i \in 1..3 : ai.summary.calls[i].form = "empty"
    /\ ai.summary.value.chars # <<>>
    /\ Len(ai.actions.value.items) = 1

\* C8: in the action sub-flow a reply that is no JSON fails its tier: the
\* provider after it in the chain is called next, no provider is called
\* twice, and the action result never comes from the unparseable reply.
C8_NotJsonFallsThrough ==
    ai.pc # "idle" =>
        LET c == ai.actions.calls
        IN  /\ \A i \in 1..Len(c) : c[i].by = ActionProviders[i]
            /\ \A i, j \in 1..Len(c) : i # j => c[i].by # c[j].by
            /\ \A i \in 1..Len(c) :
                  c[i].form = "prose" =>
                     /\ i < 3 => IF Len(c) > i
                                 THEN c[i + 1].by = ActionProviders[i + 1]
                                 ELSE ~ai.actions.done /\ ai.actions.at = i + 1
                     /\ ai.actions.done => ai.actions.value.by # c[i].by

\* the first tier answered "not json" and the second tier's list was returned
C8_Witness ==
    /\ ai.pc = "returned"
    /\ Len(ai.actions.calls) = 2
    /\ ai.actions.calls[1].form = "prose"
    /\ ai.actions.calls[1].by = "openai"
    /\ ai.actions.calls[2].form = "json_list"
    /\ ai.actions.value.by = "claude"

\* the rows of the record store for message m
RowsOf(m) == {r \in emails : r.message_id = m}

\* an attempt that returned normally after a successful fetch
Processed(f) == f.outcome \in {"stored", "duplicate"}

\* a worker at the existence check of a message that has a row returns
\* without touching the record store
C1_SecondIsNoOp ==
    \A w \in Workers :
       (wk[w].pc = "exists" /\ wk'[w] # wk[w] /\ RowsOf(wk[w].task.message_id) # {}) =>
           /\ wk'[w] = Idle
           /\ emails' = emails
           /\ finished' = Append(finished,
                                 Done(wk[w].task, "duplicate", wk[w].user_id))

C1_OneRow ==
    \A i, j \in 1..Len(finished) :
       (i < j /\ finished[i].message_id = finished[j].message_id
              /\ Processed(finished[i]) /\ Processed(finished[j])) =>
           /\ Cardinality(RowsOf(finished[i].message_id)) = 1
           /\ ~(finished[i].outcome = "stored" /\ finished[j].outcome = "stored")

\* C1: once a message has a record, processing a notification for it again
\* (user, token and fetch succeeding) returns at the existence check without
\* writing, and two completed processings of one messageId leave exactly one
\* EmailRecord for it.
C1_IdempotentIngestion == []C1_OneRow /\ [][C1_SecondIsNoOp]_vars

\* the first delivery of m1 was stored, the second one then ended as a
\* duplicate, and m1 has one row
C1_Witness ==
    /\ Len(finished) = 2
    /\ finished[1] = Done([NoTask EXCEPT !.id = 1, !.message_id = <<"m1">>], "stored", 1)
    /\ finished[2] = Done([NoTask EXCEPT !.id = 2, !.message_id = <<"m1">>], "duplicate", 1)
    /\ Cardinality(RowsOf(<<"m1">>)) = 1

\* C2: in every reachable state the record store holds at most one
\* EmailRecord per messageId.
C2_AtMostOneRow == \A m \in MsgIds : Cardinality(RowsOf(m)) <= 1

\* two workers passed the existence check of one message; the commit of the
\* second was rejected by the unique index (no database failure happened) and
\* its task went back to the broker
C2_Witness ==
    /\ dbFailures = 0
    /\ \E t \in queue :
          /\ t.retries = 1
          /\ Cardinality(RowsOf(t.message_id)) = 1
          /\ \E w \in Workers : wk[w].pc = "vector" /\ wk[w].task.message_id = t.message_id
                                 /\ wk[w].task.id # t.id

\* both lookups returned a value, whatever it is
CacheHitIfPresent(cached_summary, cached_actions) ==
    cached_summary # <<>> /\ cached_actions # <<>>

\* C7: a worker whose two cache lookups both returned a value, both still
\* cached, invokes no AI provider.
C7_CachedMeansNoProvider ==
    \A w \in Workers :
       LET d == wk[w].email_data
       IN  ~ /\ wk[w].pc = "enrich"
             /\ CacheHitIfPresent(wk[w].cached_summary, wk[w].cached_actions)
             /\ CacheGet(cache, SummaryKey(d)) = wk[w].cached_summary
             /\ CacheGet(cache, ActionsKey(d)) = wk[w].cached_actions

\* the sweep that starts selects every subscribed user whose expiry is two
\* hours away
C9_Selects ==
    (sweep.pc = "idle" /\ sweep'.pc = "loop") =>
        \A u \in UserIds :
           (/\ users[u].webhook_subscription_id # None
            /\ users[u].webhook_expires_at = <<now + 120>>) => u \in sweep'.todo

\* the write that ends a successful renewal stores the expiry of the
\* renewal call and touches nothing else
C9_Renews ==
    (sweep.pc = "write" /\ sweep'.pc # "write" /\ users' # users) =>
        LET u == sweep.user_id
        IN  /\ users'[u].webhook_expires_at = <<sweep.called_at + ExpirationMinutes>>
            /\ users'[u].webhook_subscription_id = users[u].webhook_subscription_id
            /\ \A v \in UserIds \ {u} : users'[v] = users[v]

\* C9: a user whose subscription expires two hours after the start of a
\* sweep is selected by it (the horizon is 24 hours); when the renewal
\* succeeds, the stored expiry becomes the time of the renewal call plus
\* 4230 minutes and the stored subscriptionId stays what it was.
C9_SweepRenews == [][C9_Selects /\ C9_Renews]_vars

\* user 1, two hours from expiry at the start of the sweep, was renewed a
\* minute later and holds the new expiry under its old subscription
C9_Witness ==
    \E i \in 1..Len(subLog) :
       LET e == subLog[i]
       IN  /\ e.user_id = 1
           /\ e.selected.webhook_expires_at = <<e.started_at + 120>>
           /\ e.called_at = e.started_at + 1
           /\ e.subscription_id = "s1"
           /\ users[1].webhook_expires_at = <<e.called_at + ExpirationMinutes>>
           /\ users[1].webhook_subscription_id = "s1"
           /\ upstream[1].exp = e.called_at + ExpirationMinutes

\* the order of the awaited calls of one task
PcOrder == <<"idle", "resolve", "token", "fetch", "exists", "get_summary",
             "get_actions", "enrich", "set_summary", "set_actions", "commit",
             "vector">>

Rank(pc) == CHOOSE i \in 1..Len(PcOrder) : PcOrder[i] = pc

\* a running task can always take its next step, whatever the other worker
\* does; a stored task has the record of its own message
C10_NoWaitBothStored ==
    /\ \A w \in Workers : wk[w].pc # "idle" => ENABLED WorkerStep(w)
    /\ \A i \in 1..Len(finished) :
          finished[i].outcome = "stored" =>
             \E r \in RowsOf(finished[i].message_id) :
                /\ r.subject = Mailbox[finished[i].message_id].subject
                /\ r.sender = Mailbox[finished[i].message_id].sender

\* every step of a task moves it forward or ends it
C10_Progress ==
    \A w \in Workers :
       wk'[w] # wk[w] =>
          \/ wk'[w].pc = "idle"
          \/ Rank(wk'[w].pc) > Rank(wk[w].pc)

\* C10: two tasks for distinct messageIds on different workers never wait on
\* each other: each can always take its next step, every step moves its task
\* forward, and once both are stored, in either order, a record exists for
\* each of the two messageIds.
C10_ConcurrentDistinct == []C10_NoWaitBothStored /\ [][C10_Progress]_vars

\* the task of m1 committed first and finished last: the task of m2 ran
\* inside it, and both records exist
C10_Witness ==
    /\ Len(finished) = 2
    /\ finished[1].id = 2 /\ finished[1].message_id = <<"m2">>
    /\ finished[1].outcome = "stored"
    /\ finished[2].id = 1 /\ finished[2].message_id = <<"m1">>
    /\ finished[2].outcome = "stored"
    /\ \E r \in RowsOf(<<"m1">>) : r.id = 1
    /\ \E r \in RowsOf(<<"m2">>) : r.id = 2

\* the body an enrichment of row r is fed: body_text or body_html, cut
EnrichedBody(r) ==
    Slice(IF r.body_text # <<>> THEN r.body_text ELSE r.body_html, PromptBodyLen)

\* C11: the summary and the actions stored in an EmailRecord answer a prompt
\* made of that record's own subject and body (enriched for it, or cached
\* for a message with the same subject and body).
C11_NoCrossContamination ==
    \A r \in emails :
       /\ r.summary.about.subject = r.subject
       /\ r.summary.about.body = EnrichedBody(r)
       /\ r.suggested_actions.about.subject = r.subject
       /\ r.suggested_actions.about.body = EnrichedBody(r)

\* the tasks at the broker or in a worker
InFlight == queue \cup {wk[w].task : w \in {v \in Workers : wk[v].pc # "idle"}}

\* a task has made at most three retries, waits 1, 2, 4 before them, exists
\* once, and is gone from broker and workers once it is in a terminal state
C12_Bounded ==
    /\ \A t \in InFlight :
          /\ t.retries <= MaxRetries
          /\ t.countdown = IF t.retries = 0 THEN 0 ELSE 2 ^ (t.retries - 1)
          /\ t.countdown \in {0, 1, 2, 4}
    /\ \A t1, t2 \in InFlight : t1.id = t2.id => t1 = t2
    /\ \A i \in 1..Len(finished) :
          /\ \A t \in InFlight : t.id # finished[i].id
          /\ \A j \in 1..Len(finished) : finished[j].id = finished[i].id => j = i
          /\ finished[i].outcome = "failed" => finished[i].retries = MaxRetries

\* an attempt that ends without a terminal state sends its task back with
\* one more retry and the countdown 2^k, k the retries made before
C12_Retries ==
    \A w \in Workers :
       (wk[w].pc # "idle" /\ wk'[w].pc = "idle" /\ finished' = finished) =>
           /\ wk[w].task.retries < MaxRetries
           /\ queue' = queue \cup {[wk[w].task EXCEPT !.retries = @ + 1,
                                                      !.countdown = 2 ^ wk[w].task.retries]}

\* C12: an attempt that raises is retried with countdown 2^k (1, 2, 4), k the
\* retries already made; after three retries the task fails for good and
\* is never executed again, so every task is executed at most four times.
C12_RetriesWithBackoff == []C12_Bounded /\ [][C12_Retries]_vars

\* the task of the message without receivedDateTime raised four times and
\* failed
C12_Witness ==
    \E i \in 1..Len(finished) :
       /\ finished[i].outcome = "failed"
       /\ finished[i].message_id = <<"m5">>
       /\ finished[i].retries = 3
       /\ \A t \in InFlight : t.id # finished[i].id

\* C13: a task whose fetch of an existing message failed (timeout, 5xx,
\* rate limit) ends without a record only after it has been retried as
\* often as the task allows.
C13_FetchFailureRetried ==
    \A i \in 1..Len(finished) :
       (finished[i].outcome = "no_fetch" /\ finished[i].message_id \in MsgIds) =>
           finished[i].retries = MaxRetries

\* the replies that are failures: a status that is not 2xx, a timeout, a
\* connection that fails
FailureKinds == {"status_error", "timeout", "connect_error"}

\* C14: a Graph client operation whose request is answered with a status
\* that is not 2xx, times out or fails returns its "no result" (None, []
\* or False) and raises nothing.
C14_FailureIsNoResult ==
    (gw.pc = "returned" /\ gw.client = "GraphClient" /\ gw.contacted
       /\ gw.kind \in FailureKinds) =>
        /\ gw.raised = <<>>
        /\ gw.result = NoResult(gw.op)

\* the listing timed out and returned []
C14_Witness ==
    /\ gw.pc = "returned" /\ gw.client = "GraphClient"
    /\ gw.op = "fetch_emails" /\ gw.kind = "timeout" /\ gw.contacted
    /\ gw.result = PyList(<<>>) /\ gw.raised = <<>>

\* C15: every GET of the Graph client reads the cache under its URL first,
\* is answered from the cache without a request when the URL is cached, and
\* stores a successful answer; POST, PATCH and DELETE neither read nor
\* write the cache.
C15_GetsCached ==
    (gw.pc = "returned" /\ gw.client = "GraphClient") =>
        IF gw.method = "GET"
        THEN /\ gw.looked_up
             /\ gw.cached_before => ~gw.contacted
             /\ (gw.contacted /\ gw.kind = "json") => gw.stored
        ELSE ~gw.looked_up /\ ~gw.stored

\* C16: listing the unread messages of a mailbox that holds U of them, on
\* answers that are all successful and pages of whatever size, returns the
\* first min(U, max_count) of them (all U without a max_count).
C16_ListUnreadUpToCap ==
    (gw.pc = "returned" /\ gw.op = "fetch_unread_emails" /\ gw.kind = "json") =>
        LET n == IF gw.max_count = <<>> THEN gw.unread
                 ELSE Min(gw.unread, gw.max_count[1])
        IN  gw.result = PyList(SubSeq(Unread(gw.unread), 1, n))

ActionTypes == {"reply", "delegate", "schedule", "review", "file", "no_action"}
ActionPriorities == {"low", "medium", "high", "urgent"}

\* a list of action objects with the fields, the type and the priority of
\* the schema
ValidActions(v) ==
    /\ v.t = "list"
    /\ \A i \in 1..Len(v.items) :
          /\ DOMAIN v.items[i] = {"action", "type", "priority", "due_date", "reasoning"}
          /\ v.items[i].type \in ActionTypes
          /\ v.items[i].priority \in ActionPriorities

\* C17: the action sub-flow returns a list of action objects of the schema;
\* a reply that parses to something else (a JSON object, a list with an item
\* out of the schema) fails its tier, and the result comes from a later one.
C17_ActionsValidated ==
    (ai.pc # "idle" /\ ai.actions.done) =>
        /\ ValidActions(ai.actions.value)
        /\ \A i \in 1..Len(ai.actions.calls) :
              ai.actions.calls[i].form \in {"json_object", "json_bad_item"} =>
                  ai.actions.value.by # ai.actions.calls[i].by

\* every user row holds one subscription id or None, and no id is held by
\* two users
C18_OneId ==
    /\ \A u \in UserIds :
          users[u].webhook_subscription_id \in
              {None} \cup {SubIds[i] : i \in 1..Len(SubIds)}
    /\ \A u, v \in UserIds :
          (u # v /\ users[u].webhook_subscription_id # None) =>
              users[u].webhook_subscription_id # users[v].webhook_subscription_id

\* a step of renew_subscription_for_user, in the sweep or behind POST
\* /webhooks/renew, leaves every stored id as it is; a row it changes gets
\* the expiration the mail service answered, now + 4230 minutes at the call
C18_RenewStep ==
    ((sweep' # sweep /\ sweep.pc # "idle") \/ \E v \in UserIds : ApiRenew(v)) =>
        \A u \in UserIds :
           /\ users'[u].webhook_subscription_id = users[u].webhook_subscription_id
           /\ users'[u] # users[u] =>
                 users'[u].webhook_expires_at =
                    <<(IF sweep' # sweep THEN sweep.called_at ELSE now)
                      + ExpirationMinutes>>

\* a renewal that fails, without a subscription, without a token, on a
\* failing request or on a failing commit, leaves the users table alone
C18_FailureStep ==
    /\ (sweep.pc \in {"read", "token", "call"} /\ sweep' # sweep) => users' = users
    /\ (sweep.pc = "write" /\ sweep' # sweep /\ dbFailures' # dbFailures) =>
          users' = users

\* C18: a user holds at most one subscription id; renewing never changes it
\* or adds one: a successful renewal replaces the expiration only, a failed
\* one changes nothing in the user row.
C18_RenewKeepsId ==
    []C18_OneId /\ [][C18_RenewStep]_vars /\ [][C18_FailureStep]_vars

\* user 1 still holds "s1", renewed a day later through POST
\* /webhooks/renew, no sweep having written anything
C18_Witness ==
    /\ users[1].webhook_subscription_id = "s1"
    /\ now = 1320
    /\ users[1].webhook_expires_at = <<now + ExpirationMinutes>>
    /\ subLog = <<>>
    /\ Len(upstream) = 1 /\ upstream[1].exp = now + ExpirationMinutes

\* a step of delete_subscription_for_user for a user that holds an id: when
\* the mail service deleted the subscription (it answered 2xx) the row of
\* the user has neither id nor expiration afterwards, otherwise the row is
\* as before
C19_DeleteStep ==
    \A u \in UserIds :
       ApiDelete(u) =>
          LET i == SubIndex(users[u].webhook_subscription_id)
          IN  IF upstream[i].live /\ ~upstream'[i].live
              THEN users'[u] = [webhook_subscription_id |-> None,
                                webhook_expires_at |-> <<>>]
              ELSE users'[u] = users[u]

\* C19: delete_subscription_for_user clears the stored id and expiration of
\* the user exactly when the DELETE at the mail service succeeded.
C19_DeleteClearsOnSuccess == [][C19_DeleteStep]_vars

\* the subscription stored for user u has expired without a renewal
Lapsed(u) ==
    /\ users[u].webhook_subscription_id # None
    /\ users[u].webhook_expires_at # <<>>
    /\ users[u].webhook_expires_at[1] < now

\* user u holds no subscription id, and no sweep has u to renew
Unsubscribed(u) ==
    /\ users[u].webhook_subscription_id = None
    /\ sweep.pc # "idle" => (u \notin sweep.todo /\ sweep.user_id # u)

\* C20: a user whose subscription lapsed eventually holds no subscription
\* id and is not selected by the sweep.
C20_LapsedBecomesUnsubscribed ==
    \A u \in UserIds : Lapsed(u) ~> Unsubscribed(u)

C22_NeverStuck == sweep.pc # "idle" => ENABLED Sweep

\* the loop takes each selected user once: at its head it moves one user out
\* of those left and returns only when none is left; the renewal of a user,
\* whether it succeeds, returns None or raises, leaves the others left and
\* goes on or comes back to the head of the loop
C22_Step ==
    /\ (sweep.pc = "loop" /\ sweep' # sweep) =>
          IF sweep.todo = {} THEN sweep'.pc = "idle"
          ELSE /\ sweep'.pc = "read"
               /\ sweep'.user_id \in sweep.todo
               /\ sweep'.todo = sweep.todo \ {sweep'.user_id}
    /\ (sweep.pc \in {"read", "token", "call", "write"} /\ sweep' # sweep) =>
          /\ sweep'.pc \in {"loop", "token", "call", "write"}
          /\ sweep'.todo = sweep.todo
          /\ sweep'.pc # "loop" => sweep'.user_id = sweep.user_id

\* C22: the failure of one renewal of a sweep, a None result or an exception,
\* does not end the sweep: every other selected user is taken once, and the
\* sweep returns.
C22_SweepGoesOn == []C22_NeverStuck /\ [][C22_Step]_vars

\* a sweep selected both users; the commit of user 1's renewal raised, and
\* the sweep is at the write of user 2's renewal
C22_Witness ==
    /\ sweep.pc = "write" /\ sweep.user_id = 2 /\ sweep.todo = {}
    /\ ExpiringUsers(sweep.seen, sweep.started_at + SweepHorizon) = {1, 2}
    /\ users[1] = sweep.seen[1]
    /\ dbFailures = 1
    /\ \A i \in 1..Len(subLog) : subLog[i].started_at # sweep.started_at

\* s is t with some of its elements left out
RECURSIVE IsSubSeq(_, _)
IsSubSeq(s, t) ==
    IF s = <<>> THEN TRUE
    ELSE IF t = <<>> THEN FALSE
    ELSE IF Head(s) = Head(t) THEN IsSubSeq(Tail(s), Tail(t))
    ELSE IsSubSeq(s, Tail(t))

\* C23: whichever .delay() calls of a batch raise, the receiver makes the
\* call of every parseable entry, the broker holds the tasks of the calls
\* that did not raise, and the answer is 202.
C23_EnqueueFailuresSwallowed ==
    (IsBatch(http.body) /\ http.body.value.t = "list") =>
        /\ http.status = 202
        /\ Len(http.calls) = Len(SelectSeq(http.body.value.l, Parseable))
        /\ IsSubSeq(http.accepted, http.calls)
        /\ Cardinality(queue) = Len(http.accepted)
        /\ \A i \in 1..Len(http.accepted) :
              \E t \in queue : /\ t.id = i
                               /\ t.message_id = http.accepted[i].message_id

\* the first .delay() of a batch of two raised, the second task is queued
C23_Witness ==
    /\ IsBatch(http.body) /\ http.status = 202
    /\ Len(http.calls) = 2
    /\ http.calls[1].message_id # http.calls[2].message_id
    /\ http.accepted = <<http.calls[2]>>
    /\ \E t \in queue : t.message_id = http.calls[2].message_id
    /\ Cardinality(queue) = 1

\* C24: every row of the emails table, in every state, also after workers
\* ended in the middle of a task, carries the fields of its message and
\* both results: a summary that is not empty, an action value and the name
\* of the model used.
C24_NoPartialRecord ==
    \A r \in emails :
       /\ r.message_id \in MsgIds /\ r.user_id \in UserIds
       /\ r.subject = Mailbox[r.message_id].subject
       /\ r.sender = Mailbox[r.message_id].sender
       /\ r.body_text = BodyText(Mailbox[r.message_id])
       /\ r.body_html = BodyHtml(Mailbox[r.message_id])
       /\ "chars" \in DOMAIN r.summary /\ r.summary.chars # <<>>
       /\ "items" \in DOMAIN r.suggested_actions
       /\ r.ai_model_used # None

\* the worker of the task of m1 was killed and left no row; the task of m2
\* then stored its record
C24_Witness ==
    /\ Len(finished) = 2
    /\ finished[1].outcome = "aborted" /\ finished[1].message_id = <<"m1">>
    /\ finished[2].outcome = "stored" /\ finished[2].message_id = <<"m2">>
    /\ RowsOf(<<"m1">>) = {}
    /\ RowsOf(<<"m2">>) # {}
    /\ CacheGet(cache, SummaryKey(Mailbox[<<"m1">>])) # <<>>

NoUser(task) == UsersBySubscription(task.subscription_id) = {}

\* a task of a subscription without user never gets past the lookup, and
\* is neither waiting for a retry nor recorded as one that was retried
C26_NeverPastLookup ==
    /\ \A w \in Workers :
          wk[w].pc \notin {"idle", "resolve"} => ~NoUser(wk[w].task)
    /\ \A w \in Workers : (wk[w].pc = "resolve" /\ NoUser(wk[w].task)) => wk[w].task.retries = 0
    /\ \A t \in queue : NoUser(t) => t.retries = 0
    /\ \A i \in 1..Len(finished) : finished[i].outcome = "no_user" => finished[i].retries = 0

\* the lookup that finds no user ends the task: nothing goes back to the
\* broker, and the record store, the caches, the vector store and the
\* providers are left alone
C26_LookupStep ==
    \A w \in Workers :
       (wk[w].pc = "resolve" /\ wk'[w] # wk[w] /\ NoUser(wk[w].task)) =>
           /\ wk'[w] = Idle
           /\ finished' = Append(finished, Done(wk[w].task, "no_user", 0))
           /\ UNCHANGED <<queue, emails, nextRowId, cache, vstore, ai>>

\* C26: a task whose subscriptionId matches no user ends at the lookup:
\* it writes no record, never reaches the fetch from the mail service or
\* the AI providers, returns normally and is never retried.
C26_UnknownSubscriptionDropped == []C26_NeverPastLookup /\ [][C26_LookupStep]_vars

\* the only delivery named a subscription no user holds; its task ended
\* at the lookup, with no retry and no record
C26_Witness ==
    /\ finished = <<Done([NoTask EXCEPT !.id = 1, !.message_id = <<"m1">>], "no_user", 0)>>
    /\ queue = {} /\ emails = {} /\ cache = {} /\ vstore = {}
    /\ \A w \in Workers : wk[w] = Idle

\* the step of a worker at the token: it goes on to the fetch, or the task
\* ends there, nothing goes back to the broker, and the record store, the
\* caches, the vector store and the providers are left alone
C27_TokenStep ==
    \A w \in Workers :
       (wk[w].pc = "token" /\ wk'[w] # wk[w] /\ wk'[w].pc # "fetch") =>
           /\ wk'[w] = Idle
           /\ finished' = Append(finished, Done(wk[w].task, "no_token", wk[w].user_id))
           /\ UNCHANGED <<queue, emails, nextRowId, cache, vstore, ai>>

\* C27: a task for whose user get_valid_access_token returns no token ends
\* there: it writes no record, never reaches the fetch from the mail
\* service or the AI providers, and is not handed to the retry.
C27_NoTokenDropped == [][C27_TokenStep]_vars

\* the only delivery was for user 1, for whom no token was obtained: the
\* task ended without retry and without record
C27_Witness ==
    /\ finished = <<Done([NoTask EXCEPT !.id = 1, !.message_id = <<"m1">>], "no_token", 1)>>
    /\ queue = {} /\ emails = {} /\ cache = {} /\ vstore = {}
    /\ \A w \in Workers : wk[w] = Idle

\* the existence check of a message that has a row ends the task as a
\* success: no provider was called for it, and the step leaves the broker,
\* the record store, the caches and the vector store as they were
C28_DuplicateStep ==
    \A w \in Workers :
       (wk[w].pc = "exists" /\ wk'[w] # wk[w] /\ RowsOf(wk[w].task.message_id) # {}) =>
           /\ wk[w].provider_calls = 0
           /\ wk[w].summary = <<>> /\ wk[w].suggested_actions = <<>>
           /\ wk'[w] = Idle
           /\ Len(finished') = Len(finished) + 1
           /\ finished'[Len(finished')].outcome = "duplicate"
           /\ finished'[Len(finished')].retries = wk[w].task.retries
           /\ UNCHANGED <<queue, emails, nextRowId, cache, vstore, ai>>

\* C28: a notification for a messageId that already has a record calls no
\* AI provider, writes no cache entry, upserts nothing into the vector
\* store, leaves the record as it is, and returns without raising or
\* retrying.
C28_DuplicateIsNoOp == [][C28_DuplicateStep]_vars

\* the second delivery of m1 ended as a duplicate without retry; there is
\* one record, and the vector store holds the one entry of the first
C28_Witness ==
    /\ Len(finished) = 2
    /\ finished[1].outcome = "stored" /\ finished[1].message_id = <<"m1">>
    /\ finished[2].outcome = "duplicate" /\ finished[2].message_id = <<"m1">>
    /\ finished[2].retries = 0
    /\ Cardinality(emails) = 1
    /\ vstore = {<<"m1">>}
    /\ queue = {}

\* C29: the summary sub-flow calls Gemini Flash, then GPT-4, then Claude,
\* each only after the ones before it gave None or the empty string; the
\* first reply that is not empty ends the flow and is the summary, with the
\* model of its tier as last_model_used; the rule-based summary is returned
\* when, and only when, all three gave nothing.
C29_SummaryChain ==
    ai.pc # "idle" =>
        LET fl == ai.summary
            c  == fl.calls
            n  == Len(c)
        IN  /\ n <= 3
            /\ \A i \in 1..n : c[i].by = <<"gemini", "openai", "claude">>[i]
            /\ \A i \in 1..(n - 1) : ~TruthyText(c[i])
            /\ (n > 0 /\ TruthyText(c[n])) =>
                   /\ fl.done
                   /\ fl.value = c[n]
                   /\ ai.last_model_used =
                         <<"gemini-1.5-flash", "gpt-4", "claude-3-sonnet-20240229">>[n]
            /\ (n = 3 /\ ~TruthyText(c[n])) =>
                   /\ fl.done
                   /\ fl.value = FallbackSummary(ai.subject, ai.sender, ai.body)
                   /\ ai.last_model_used = "fallback"
            /\ (n < 3 /\ (n = 0 \/ ~TruthyText(c[n]))) => ~fl.done

\* Gemini answered the empty string, GPT-4 a text: Claude was not called
\* and the summary is the text of GPT-4
C29_Witness ==
    /\ ai.pc = "returned"
    /\ Len(ai.summary.calls) = 2
    /\ ai.summary.calls[1].by = "gemini" /\ ai.summary.calls[1].form = "empty"
    /\ ai.summary.calls[2].by = "openai" /\ ai.summary.calls[2].form = "prose"
    /\ ai.summary.value.by = "openai"
    /\ ai.last_model_used = "gpt-4"

\* a reply that ends the action sub-flow: text that json.loads accepts
Parses(r) == TruthyText(r) /\ JsonLoads(r).ok

\* C30: the action sub-flow calls GPT-4, then Claude, then Gemini, each
\* only after the replies before it did not parse; the first reply that
\* parses ends the flow; when all three gave nothing the result is the one
\* action "Review email" of type review and priority medium, whose
\* reasoning reads "automated fallback".
C30_ActionChain ==
    ai.pc # "idle" =>
        LET fl == ai.actions
            c  == fl.calls
            n  == Len(c)
        IN  /\ n <= 3
            /\ \A i \in 1..n : c[i].by = <<"openai", "claude", "gemini">>[i]
            /\ \A i \in 1..(n - 1) : ~Parses(c[i])
            /\ (n > 0 /\ Parses(c[n])) => (fl.done /\ fl.value.by = c[n].by)
            /\ (n < 3 /\ (n = 0 \/ ~Parses(c[n]))) => ~fl.done
            /\ (n = 3 /\ ~Parses(c[n])) =>
                   /\ fl.done
                   /\ Len(fl.value.items) = 1
                   /\ fl.value.items[1].action = "Review email"
                   /\ fl.value.items[1].type = "review"
                   /\ fl.value.items[1].priority = "medium"
                   /\ fl.value.items[1].reasoning = "automated fallback"

\* the provider call answered with a quota or rate-limit error
Errored(r) == r.form \in ProviderErrors

\* C31: a quota or rate-limit error of a provider call does not leave
\* process_email; the tier counts as one without result: the next tier of
\* the chain is called, or the fallback is returned after the third, and the
\* result never comes from the tier that failed.
C31_QuotaIsNoResult ==
    /\ ai.pc # "raised"
    /\ ai.pc # "idle" =>
          \A fl \in {ai.summary, ai.actions} :
             \A i \in 1..Len(fl.calls) :
                Errored(fl.calls[i]) =>
                   /\ (i = Len(fl.calls) /\ i < 3) => (~fl.done /\ fl.at = i + 1)
                   /\ i = 3 => (fl.done /\ fl.value.by = "fallback")
                   /\ fl.done => fl.value.by # fl.calls[i].by

\* Gemini was out of quota and the summary is the one of GPT-4; all three
\* tiers of the action chain limited the rate and the fallback action is
\* returned
C31_Witness ==
    /\ ai.pc = "returned"
    /\ Len(ai.summary.calls) = 2
    /\ ai.summary.calls[1].form = "quota_error"
    /\ ai.summary.calls[2].form = "prose"
    /\ ai.summary.value.by = "openai"
    /\ Len(ai.actions.calls) = 3
    /\ \A i \in 1..3 : ai.actions.calls[i].form = "rate_limit_error"
    /\ ai.actions.value.by = "fallback"

\* C32: process_email starts both sub-flows before either has called a
\* provider, returns only when both are done, and returns the value of the
\* summary sub-flow as summary and the value of the action sub-flow as
\* actions, whichever was done first.
C32_GatherBoth ==
    /\ ai.pc = "gather" =>
          /\ ai.result = <<>>
          /\ Len(ai.completed) = (IF ai.summary.done THEN 1 ELSE 0)
                                   + (IF ai.actions.done THEN 1 ELSE 0)
    /\ ai.pc = "returned" =>
          /\ ai.summary.done /\ ai.actions.done
          /\ Len(ai.result) = 2
          /\ ai.result[1] = ai.summary.value
          /\ ai.result[2] = ai.actions.value
          /\ "chars" \in DOMAIN ai.result[1]
          /\ "items" \in DOMAIN ai.result[2]

\* the action sub-flow was done at its second call, before the summary
\* sub-flow that needed three: the summary is still the first of the pair
C32_Witness ==
    /\ ai.pc = "returned"
    /\ ai.completed = <<"actions", "summary">>
    /\ Len(ai.actions.calls) = 2 /\ Len(ai.summary.calls) = 3
    /\ ai.result[1].by = "claude" /\ ai.result[1].form = "prose"
    /\ ai.result[2].by = "claude" /\ ai.result[2].t = "list"

\* a worker at the upsert has committed the record of its message
C33_RowCommitted ==
    \A w \in Workers : wk[w].pc = "vector" => RowsOf(wk[w].task.message_id) # {}

\* the upsert, failed or not, ends the task as stored: the record stays
\* and nothing goes back to the broker
C33_UpsertStep ==
    \A w \in Workers :
       (wk[w].pc = "vector" /\ wk'[w] # wk[w]) =>
           /\ wk'[w] = Idle
           /\ finished' = Append(finished, Done(wk[w].task, "stored", wk[w].user_id))
           /\ UNCHANGED <<queue, emails, nextRowId>>

\* C33: a vector-store upsert that fails does not fail the task: the
\* record committed before it stays, the task ends as a success and is not
\* retried.
C33_UpsertFailureNotFatal == []C33_RowCommitted /\ [][C33_UpsertStep]_vars

\* the task of m1 ended as stored without retry, its record is there, and
\* the vector store is empty: the upsert failed
C33_Witness ==
    /\ finished = <<Done([NoTask EXCEPT !.id = 1, !.message_id = <<"m1">>], "stored", 1)>>
    /\ RowsOf(<<"m1">>) # {}
    /\ vstore = {}
    /\ queue = {}
    /\ \A w \in Workers : wk[w] = Idle

\* the subscription ids the user rows hold
HeldIds(us) == {us[u].webhook_subscription_id : u \in UserIds} \ {None}

\* a create for a user that holds a subscription: the mail service has one
\* subscription more, the row holds the new id and the new expiration, and
\* the earlier subscription is as it was at the mail service while no row
\* holds its id
C34_CreateStep ==
    \A u \in UserIds :
       LET old == users[u].webhook_subscription_id
           new == users'[u].webhook_subscription_id
       IN  (old # None /\ new # None /\ new # old) =>
              /\ Len(upstream') = Len(upstream) + 1
              /\ new = SubIds[Len(upstream')]
              /\ upstream'[Len(upstream')] = [exp |-> now + ExpirationMinutes, live |-> TRUE]
              /\ users'[u].webhook_expires_at = <<now + ExpirationMinutes>>
              /\ upstream'[SubIndex(old)] = upstream[SubIndex(old)]
              /\ old \notin HeldIds(users')

\* C34: create_subscription_for_user, called for a user that holds a
\* subscription, registers a new one and overwrites the stored id and
\* expiration; the earlier subscription is not deleted and is left at the
\* mail service with no user referring to it.
C34_CreateOrphans == [][C34_CreateStep]_vars

\* user 1 subscribed again: "s1" is live at the mail service and no row
\* holds it
C34_Witness ==
    /\ users[1].webhook_subscription_id = "s2"
    /\ Len(upstream) = 2
    /\ Live("s1") /\ Live("s2")
    /\ "s1" \notin HeldIds(users)

\* C35: no task is lost: every task the broker accepted is at the broker,
\* in a worker, or has run to its end; a task whose worker was lost or
\* killed is at the broker again.
C35_AtLeastOnce ==
    \A id \in 1..nextTaskId :
       \/ \E t \in InFlight : t.id = id
       \/ \E i \in 1..Len(finished) :
             finished[i].id = id /\ finished[i].outcome # "aborted"

\* C36: under every interleaving of create, renew, delete and the sweep,
\* a user row holds a subscription id exactly when it holds an expiration.
C36_IdIffExpiration ==
    \A u \in UserIds :
       (users[u].webhook_subscription_id = None) <=> (users[u].webhook_expires_at = <<>>)

\* C37: a worker past the lookup of the user runs for a user whose stored
\* subscription id is the subscriptionId of the notification, which is not
\* missing; so no token is used and no record written for a notification
\* without subscriptionId or with one no user holds.
C37_OnlyTheHolder ==
    \A w \in Workers :
       wk[w].pc \notin {"idle", "resolve"} =>
          /\ wk[w].task.subscription_id # None
          /\ users[wk[w].user_id].webhook_subscription_id = wk[w].task.subscription_id

\* the user whose batch sends a task for message m
BatchOwner(m) == CHOOSE u \in UserIds : \E i \in 1..Len(BatchUnread(u)) : BatchUnread(u)[i] = m

\* C38: a task sent by process_email_batch for user U is processed for
\* user U, with or without a subscription of U: no such task ends at the
\* lookup of the user, and a record written for it is owned by U.
C38_BatchResolvesToUser ==
    /\ \A w \in Workers :
          wk[w].pc \notin {"idle", "resolve"} =>
              wk[w].user_id = BatchOwner(wk[w].task.message_id)
    /\ \A i \in 1..Len(finished) : finished[i].outcome # "no_user"
    /\ \A r \in emails : r.user_id = BatchOwner(r.message_id)

\* the worker caches the summary and the actions process_email returned,
\* whatever wrote them
C39_CacheStep ==
    \A w \in Workers :
       /\ (wk[w].pc = "set_summary" /\ wk'[w] # wk[w]) =>
              CacheGet(cache', SummaryKey(wk[w].email_data)) = <<wk[w].summary>>
       /\ (wk[w].pc = "set_actions" /\ wk'[w] # wk[w]) =>
              CacheGet(cache', ActionsKey(wk[w].email_data)) = <<wk[w].suggested_actions>>

\* a worker whose lookups find the fallback summary and the fallback action
\* takes them as its results, marked "cached", and calls no provider
C39_ReuseStep ==
    \A w \in Workers :
       LET cached_actions == CacheGet(cache, ActionsKey(wk[w].email_data))
       IN  (/\ wk[w].pc = "get_actions" /\ wk'[w] # wk[w]
            /\ wk[w].cached_summary # <<>> /\ cached_actions # <<>>
            /\ wk[w].cached_summary[1].by = "fallback"
            /\ cached_actions[1].by = "fallback") =>
               /\ wk'[w].pc = "commit"
               /\ wk'[w].summary = wk[w].cached_summary[1]
               /\ wk'[w].suggested_actions = cached_actions[1]
               /\ wk'[w].ai_model_used = "cached"
               /\ wk'[w].provider_calls = 0

\* C39: the worker caches what process_email returns, the fallback summary
\* and the fallback action included; while they are cached, a task for a
\* message with the same subject and body takes them from the cache, is
\* recorded with the model "cached" and calls no provider.
C39_FallbackIsCached == [][C39_CacheStep]_vars /\ [][C39_ReuseStep]_vars

\* every provider failed for m1; the record of m2, which has the subject
\* and the body of m1, holds the fallback results taken from the cache
C39_Witness ==
    /\ \E r \in RowsOf(<<"m1">>) : r.ai_model_used = "fallback"
    /\ \E r \in RowsOf(<<"m2">>) :
          /\ r.ai_model_used = "cached"
          /\ r.summary.by = "fallback"
          /\ r.suggested_actions.by = "fallback"
          /\ r.suggested_actions.items[1].action = "Review email"

\* the vector store holds entries of recorded messages only
C40_EntriesHaveRecords == \A m \in vstore : RowsOf(m) # {}

\* the vector store changes only in the step after the commit, by the entry
\* of the task's message, whose record is committed; a step that ends a
\* task with another outcome than "stored" leaves the vector store alone
C40_UpsertStep ==
    /\ vstore' # vstore =>
          \E w \in Workers :
             /\ wk[w].pc = "vector"
             /\ wk'[w].pc = "idle"
             /\ vstore' = vstore \cup {wk[w].task.message_id}
             /\ \E r \in RowsOf(wk[w].task.message_id) : r.user_id = wk[w].user_id
    /\ (Len(finished') = Len(finished) + 1
          /\ finished'[Len(finished')].outcome # "stored") => vstore' = vstore

\* C40: in every reachable state each entry of the vector store is of a
\* message with a committed Email row; the upsert is the step after the
\* commit, and no task that was dropped, found its message recorded already
\* or failed before the commit writes one.
C40_VectorAfterCommit == [](C40_EntriesHaveRecords) /\ [][C40_UpsertStep]_vars

\* m1 is recorded and indexed, a second task for m1 ended as a duplicate,
\* and m2 is not indexed
C40_Witness ==
    /\ vstore = {<<"m1">>}
    /\ RowsOf(<<"m1">>) # {}
    /\ \E i, j \in 1..Len(finished) :
          /\ finished[i].message_id = <<"m1">> /\ finished[i].outcome = "stored"
          /\ finished[j].message_id = <<"m1">> /\ finished[j].outcome = "duplicate"

====
